---- MODULE Spec2Model ----
(***************************************************************************)
(* Model of the AI math mentor pipeline: the orchestrator state machine    *)
(* (core/orchestrator.py), its HITL decision policy, and the agents it     *)
(* sequences (parser, router, solver with guardrail gate and calculator,   *)
(* verifier, explainer).  Every language-model call, the OCR/ASR engines   *)
(* and the knowledge store are collaborators whose answers are drawn       *)
(* nondeterministically from small sets of response shapes.                *)
(*                                                                         *)
(* Conventions.  Python None is the token NoneV; a key that a dict does    *)
(* not hold is the token Absent.  JSON booleans are the tokens "true" and  *)
(* "false", JSON null is "null".  Confidences are in hundredths (0.92 is   *)
(* 92).  A free text is a token; a text the code splits is a sequence of   *)
(* tokens.                                                                 *)
(***************************************************************************)
EXTENDS Integers, Sequences, FiniteSets, TLC

VARIABLES
    state,          \* the PipelineState the caller holds (core/types.py)
    log,            \* Memory.interactions: the append-only session log
    kb,             \* VectorStore collection: id -> learning document
    calls,          \* collaborators invoked by the last operation, in order
    raised,         \* TRUE when the last operation ended in an unhandled fault
    op,             \* the last operation and the feedback it was given
    verification,   \* the verdict the verifier returned to the last operation
    nops,           \* number of orchestrator operations so far
    nruns,          \* number of them that entered the solve phase
    trace,          \* values the last operation assigned to step, in order
    probe,          \* last direct call of an agent method: its input and result
    sess            \* sessions sharing one Orchestrator: state, position, given id

vars == <<state, log, kb, calls, raised, op, verification, nops, nruns, trace, probe,
          sess>>

NoneV == "None"
Absent == "absent"

(***************************************************************************)
(* Python truthiness of a decoded JSON value or a string.                  *)
(***************************************************************************)
Truthy(v) == v \notin {Absent, NoneV, "null", "false", ""}

\* dict.get(key, default) on a record that marks missing keys with Absent
Get(d, k, default) == IF d[k] = Absent THEN default ELSE d[k]

(***************************************************************************)
(* Free-text model responses that are expected to carry a JSON object.     *)
(* fence: the text holds a ```json ... ``` block; prose: text surrounds    *)
(* the payload; body: what the payload is; obj: the object when it is one. *)
(***************************************************************************)
Bodies == {"object", "array", "garbage"}

Response(fence, prose, body, obj) ==
    [fence |-> fence, prose |-> prose, body |-> body, obj |-> obj]

\* The shared "robust JSON extraction": fenced block first, else the span
\* from the first '{' to the last '}', else the text as it is; json.loads.
\* Result: kind "dict" (with d), "list" (JSON that is not an object) or
\* "error" (json.loads raised).
ExtractJson(resp) ==
    IF resp.fence
    THEN CASE resp.body = "object" -> [kind |-> "dict", d |-> resp.obj]
           [] resp.body = "array" -> [kind |-> "list", d |-> resp.obj]
           [] OTHER -> [kind |-> "error", d |-> resp.obj]
    ELSE CASE resp.body = "object" -> [kind |-> "dict", d |-> resp.obj]
           [] resp.body = "array" /\ ~resp.prose -> [kind |-> "list", d |-> resp.obj]
           [] OTHER -> [kind |-> "error", d |-> resp.obj]

(***************************************************************************)
(* Guardrail gate (agents/guardrail_agent.py).                             *)
(***************************************************************************)
Actions == {"EXECUTE", "SWITCH_STRATEGY", "TRIGGER_HITL"}

GuardObj(s, v, r, a) ==
    [is_safe |-> s, violation_type |-> v, reason |-> r, recommended_action |-> a]

NoGuardObj == GuardObj(Absent, Absent, Absent, Absent)

GuardObjs ==
    { GuardObj(s, v, r, a) :
        s \in {Absent, "true", "false"},
        v \in {Absent, "null", "Rule 5"},
        r \in {Absent, "why"},
        a \in Actions \cup {Absent} }

GuardResponses ==
    { Response(f, p, "object", o) : f \in BOOLEAN, p \in BOOLEAN, o \in GuardObjs }
    \cup { Response(f, p, b, NoGuardObj) :
             f \in BOOLEAN, p \in BOOLEAN, b \in {"array", "garbage"} }

\* The fail-safe verdict of the except branch.
GuardrailError ==
    [kind |-> "dict",
     d |-> GuardObj("false", "Guardrail_Error",
                    "Guardrail failed to parse confirmation", "TRIGGER_HITL")]

\* GuardrailAgent.check: whatever json.loads returns is returned as it is.
GuardrailCheck(resp) ==
    LET j == ExtractJson(resp)
    IN  IF j.kind = "error" THEN GuardrailError ELSE j

(***************************************************************************)
(* Calculator (tools/calculator.py).  A query is a token; the fixed        *)
(* rewrite patterns and SymPy are tables over the tokens in use.           *)
(***************************************************************************)
\* _try_simple_parse: the expression of the first matching pattern, or None
SimpleParse(query) ==
    CASE query = "10^101" -> "(10)**101"
      [] query = "5 squared" -> "(5)**2"
      [] OTHER -> NoneV

\* replies of the translator model; "raise" is a failed call
CalcLlmReplies == {"10/2", "10**101", "5-5", "x+1", "((", "ERROR_NOT_MATH", "raise"}

\* _try_llm_parse: <<success, expression>>
LlmParse(reply) ==
    IF reply \in {"raise", "ERROR_NOT_MATH"} THEN <<FALSE, NoneV>> ELSE <<TRUE, reply>>

\* a parse that asks the translator first and the patterns never
ParseQuery_translatorfirst(query, reply) ==
    IF LlmParse(reply)[1]
    THEN [success |-> TRUE, expression |-> LlmParse(reply)[2], error |-> NoneV,
          asked |-> TRUE]
    ELSE [success |-> FALSE, expression |-> NoneV,
          error |-> "Could not parse mathematical expression", asked |-> TRUE]

\* parse_query: the translator is asked only when no pattern matched
ParseQuery(query, reply) ==
    IF Truthy(SimpleParse(query))
    THEN [success |-> TRUE, expression |-> SimpleParse(query), error |-> NoneV,
          asked |-> FALSE]
    ELSE IF LlmParse(reply)[1]
         THEN [success |-> TRUE, expression |-> LlmParse(reply)[2], error |-> NoneV,
               asked |-> TRUE]
         ELSE [success |-> FALSE, expression |-> NoneV,
               error |-> "Could not parse mathematical expression", asked |-> TRUE]

\* compute: SymPy on the expressions in use.  numerical is str(float) or None.
Compute(expression) ==
    CASE expression = "(10)**101" ->
            [success |-> TRUE, symbolic |-> "10**101", numerical |-> "1e+101",
             error |-> Absent]
      [] expression = "(5)**2" ->
            [success |-> TRUE, symbolic |-> "25", numerical |-> "25.0", error |-> Absent]
      [] expression = "10**101" ->
            [success |-> TRUE, symbolic |-> "10**101", numerical |-> "1e+101",
             error |-> Absent]
      [] expression = "10/2" ->
            [success |-> TRUE, symbolic |-> "5", numerical |-> "5.0", error |-> Absent]
      [] expression = "5-5" ->
            [success |-> TRUE, symbolic |-> "0", numerical |-> "0.0", error |-> Absent]
      [] expression = "x+1" ->
            [success |-> TRUE, symbolic |-> "x + 1", numerical |-> NoneV, error |-> Absent]
      [] OTHER ->
            [success |-> FALSE, symbolic |-> Absent, numerical |-> Absent,
             error |-> "SymPy computation failed"]

\* solve_arithmetic
SolveArithmetic(query, reply) ==
    LET p == ParseQuery(query, reply)
    IN  IF ~p.success
        THEN [success |-> FALSE, symbolic |-> Absent, numerical |-> Absent,
              error |-> p.error, parsed_expression |-> Absent, asked |-> p.asked]
        ELSE LET r == Compute(p.expression)
             IN  [success |-> r.success, symbolic |-> r.symbolic,
                  numerical |-> r.numerical, error |-> r.error,
                  parsed_expression |-> p.expression, asked |-> p.asked]

(***************************************************************************)
(* Solver (agents/solver_agent.py).                                        *)
(***************************************************************************)
STEPS == "---STEPS---"
FINAL_ANSWER == "---FINAL_ANSWER---"
CONFIDENCE == "---CONFIDENCE---"

\* s in text
Contains(text, s) == \E i \in 1..Len(text) : text[i] = s

\* text.split(s): the segments between the occurrences of s
RECURSIVE Split(_, _)
Split(text, s) ==
    IF ~Contains(text, s)
    THEN <<text>>
    ELSE LET i == CHOOSE i \in 1..Len(text) :
                      text[i] = s /\ \A j \in 1..(i - 1) : text[j] # s
         IN  <<SubSeq(text, 1, i - 1)>> \o Split(SubSeq(text, i + 1, Len(text)), s)

\* str.strip() on the line tokens in use
Strip(line) ==
    CASE line = " " -> ""
      [] line = " 42 " -> "42"
      [] OTHER -> line

\* re.sub(r'^\d+\.\s*', '', s)
StripNumbering(line) ==
    CASE line = "1. isolate x" -> "isolate x"
      [] line = "2. divide" -> "divide"
      [] line = "1." -> ""
      [] OTHER -> line

RECURSIVE NonBlank(_)
NonBlank(lines) ==
    IF lines = <<>> THEN <<>>
    ELSE IF Strip(Head(lines)) = "" THEN NonBlank(Tail(lines))
         ELSE <<Strip(Head(lines))>> \o NonBlank(Tail(lines))

\* the stripped text of a section: its lines joined
SectionText(lines) ==
    CASE NonBlank(lines) = <<>> -> ""
      [] Len(NonBlank(lines)) = 1 -> NonBlank(lines)[1]
      [] OTHER -> "several lines"

\* float(conf_part.strip()) in hundredths; ok = FALSE when float() raises
ParseConfidence(text) ==
    CASE text = "0.9" -> [ok |-> TRUE, v |-> 90]
      [] text = "0.92" -> [ok |-> TRUE, v |-> 92]
      [] text = "0.95" -> [ok |-> TRUE, v |-> 95]
      [] text = "0.96" -> [ok |-> TRUE, v |-> 96]
      [] text = "1.5" -> [ok |-> TRUE, v |-> 150]
      [] OTHER -> [ok |-> FALSE, v |-> 0]

NoError == [kind |-> Absent, violation_type |-> Absent, reason |-> Absent,
            rec |-> Absent]

Solution(plan, steps, answer, conf, err, ctx, tool) ==
    [plan |-> plan, steps |-> steps, final_answer |-> answer, confidence |-> conf,
     error |-> err, context |-> ctx, tool_used |-> tool]

\* truthiness of result.get("numerical"): a float (given by its str) or None
FloatTruthy(n) == n \notin {Absent, NoneV, "0.0"}

\* a tool path that reports less than full confidence
SolveWithTool_unsure(problem_text, reply) ==
    LET result == SolveArithmetic(problem_text, reply)
    IN  IF result.success
        THEN Solution("Direct computation via SymPy",
                      <<"Parsed expression: ...", "Computed exact value: ...">>,
                      IF FloatTruthy(result.numerical) THEN result.numerical
                                                       ELSE result.symbolic,
                      99, NoError, "Exact symbolic computation tool used",
                      "calculator")
        ELSE Solution("Tool computation failed", <<>>, "Error", 0,
                      [kind |-> "Calculator error", violation_type |-> Absent,
                       reason |-> result.error, rec |-> Absent],
                      Absent, "calculator")

\* _solve_with_tool
SolveWithTool(problem_text, reply) ==
    LET result == SolveArithmetic(problem_text, reply)
    IN  IF result.success
        THEN Solution("Direct computation via SymPy",
                      <<"Parsed expression: ...", "Computed exact value: ...">>,
                      IF FloatTruthy(result.numerical) THEN result.numerical
                                                       ELSE result.symbolic,
                      100, NoError, "Exact symbolic computation tool used",
                      "calculator")
        ELSE Solution("Tool computation failed", <<>>, "Error", 0,
                      [kind |-> "Calculator error", violation_type |-> Absent,
                       reason |-> result.error, rec |-> Absent],
                      Absent, "calculator")

\* The executor's delimited output, lines 156-197: the parsed sections, or
\* ok = FALSE when the try block raises (a split that does not unpack into
\* two parts, or no steps extracted).
ParseExecution(content_str) ==
    LET none == [ok |-> FALSE, steps |-> <<>>, final_answer |-> "Error",
                 confidence |-> 0]
    IN
    IF ~Contains(content_str, STEPS) THEN none
    ELSE
    LET parts == Split(content_str, STEPS)[2]
    IN
    IF ~Contains(parts, FINAL_ANSWER) THEN none
    ELSE IF Len(Split(parts, FINAL_ANSWER)) # 2 THEN none
    ELSE
    LET steps_part == Split(parts, FINAL_ANSWER)[1]
        remaining == Split(parts, FINAL_ANSWER)[2]
        raw_steps == NonBlank(steps_part)
        steps == [i \in 1..Len(raw_steps) |-> StripNumbering(raw_steps[i])]
    IN
    IF Contains(remaining, CONFIDENCE)
    THEN IF Len(Split(remaining, CONFIDENCE)) # 2 THEN none
         ELSE LET ans_part == Split(remaining, CONFIDENCE)[1]
                  conf == ParseConfidence(SectionText(Split(remaining, CONFIDENCE)[2]))
              IN  IF steps = <<>> THEN none
                  ELSE [ok |-> TRUE, steps |-> steps,
                        final_answer |-> SectionText(ans_part),
                        confidence |-> IF conf.ok THEN conf.v ELSE 100]
    ELSE IF steps = <<>> THEN none
         ELSE [ok |-> TRUE, steps |-> steps, final_answer |-> SectionText(remaining),
               confidence |-> 0]

\* Executor outputs in use
ExecOutputs ==
    { <<STEPS, "1. isolate x", "2. divide", FINAL_ANSWER, " 42 ", CONFIDENCE, c>> :
        c \in {"0.9", "0.92", "0.95", "0.96", "1.5", "high"} }
    \cup
    { <<STEPS, "1. isolate x", FINAL_ANSWER, "42">>,
      <<STEPS, "1. isolate x", FINAL_ANSWER, CONFIDENCE, "0.96">>,
      <<STEPS, "1. isolate x">>,
      <<"The answer is 42">>,
      <<STEPS, " ", FINAL_ANSWER, "42", CONFIDENCE, "0.96">>,
      <<STEPS, "1. isolate x", FINAL_ANSWER, "42", FINAL_ANSWER, "43", CONFIDENCE, "0.96">>,
      <<STEPS, "1. isolate x", FINAL_ANSWER, "42", CONFIDENCE, "0.96", CONFIDENCE, "0.9">>,
      <<FINAL_ANSWER, "42", STEPS, "1. isolate x", CONFIDENCE, "0.96">> }

\* vector_store.query(problem_text, n_results=1): the documents returned
QueryResults == { <<>>, <<"long document">>, <<"short document">> }

\* a retrieval that keeps the whole document
Truncate_whole(doc) == doc

\* docs[0][:1500]
Truncate(doc) == IF doc = "long document" THEN "long document[:1500]" ELSE doc

Plans == {"plan"}

\* What the collaborators of one solve call answer.
SolveEnvs ==
    [reply : CalcLlmReplies, docs : QueryResults, plan : Plans,
     guard : GuardResponses, exec : ExecOutputs]

\* n_results of the store query, line 124
NResults == 1

\* What solve sends to its collaborators on the model path: the store
\* queries (none when a context is supplied), the planner prompt (line
\* 134) and the executor prompt (line 152), as the parts they are built of.
SolveRequests(problem_text, context_str, env) ==
    LET retrieve == ~Truthy(context_str)
        ctx == IF retrieve
               THEN IF env.docs # <<>> THEN Truncate(env.docs[1]) ELSE ""
               ELSE context_str
    IN  [queries |-> IF retrieve
                     THEN <<[query_text |-> problem_text, n_results |-> NResults]>>
                     ELSE <<>>,
         planner |-> <<"Problem: ", problem_text, "Create a strategy plan.">>,
         executor |-> <<"Problem: ", problem_text, "Context Highlghts: ", ctx,
                        "Plan: ", env.plan,
                        "Execute this and return with ---SECTION--- delimiters.">>]

\* a gate that lets a verdict without is_safe through
Blocked_failopen(guard_result) == ~Truthy(Get(guard_result.d, "is_safe", "true"))

\* solve, line 140: not guard_result.get("is_safe", False)
Blocked(guard_result) == ~Truthy(Get(guard_result.d, "is_safe", "false"))

\* SolverAgent.solve.  The result, the collaborators invoked in order, and
\* raised = TRUE when the call ends in an unhandled fault (guard_result.get
\* on a verdict that is no dict).
Solve(problem_text, problem_type, context_str, env) ==
    IF problem_type = "ARITHMETIC"
    THEN [result |-> SolveWithTool(problem_text, env.reply),
          calls |-> <<"calculator">>, raised |-> FALSE]
    ELSE
    LET retrieve == ~Truthy(context_str)
        ctx == IF retrieve
               THEN IF env.docs # <<>> THEN Truncate(env.docs[1]) ELSE ""
               ELSE context_str
        pre == (IF retrieve THEN <<"vector_store.query">> ELSE <<>>)
               \o <<"planner", "guardrail">>
        guard_result == GuardrailCheck(env.guard)
    IN
    IF guard_result.kind # "dict"
    THEN [result |-> Solution(env.plan, <<>>, NoneV, 0, NoError, ctx, Absent),
          calls |-> pre, raised |-> TRUE]
    ELSE IF Blocked(guard_result)
    THEN [result |->
            Solution(env.plan, <<>>, "Guardrail Intercepted", 0,
                     [kind |-> "Guardrail Violation",
                      violation_type |-> Get(guard_result.d, "violation_type", NoneV),
                      reason |-> Get(guard_result.d, "reason", NoneV),
                      rec |-> Get(guard_result.d, "recommended_action", NoneV)],
                     ctx, Absent),
          calls |-> pre, raised |-> FALSE]
    ELSE
    LET e == ParseExecution(env.exec)
    IN  IF e.ok
        THEN [result |-> Solution(env.plan, e.steps, e.final_answer, e.confidence,
                                  NoError, ctx, Absent),
              calls |-> pre \o <<"executor">>, raised |-> FALSE]
        ELSE [result |-> Solution(env.plan, <<"Error parsing solver output">>, "Error",
                                  0,
                                  [kind |-> "Solver Parse Error",
                                   violation_type |-> Absent, reason |-> Absent,
                                   rec |-> Absent],
                                  Absent, Absent),
              calls |-> pre \o <<"executor">>, raised |-> FALSE]

(***************************************************************************)
(* Verifier (agents/verifier_agent.py).                                    *)
(***************************************************************************)
\* 1e100, the bound of the "reasonable range", as a decimal exponent
RangeExp == 100

\* float(final_answer): ok = FALSE when float() raises; cls is "fin", "inf"
\* or "nan"; exp is the decimal exponent of a finite value (|v| = m * 10^exp
\* with 1 <= m < 10; 0 for zero).
FloatOf(s) ==
    CASE s \in {"0", "0.0"} -> [ok |-> TRUE, cls |-> "fin", neg |-> FALSE, exp |-> 0]
      [] s \in {"5.0", "7"} -> [ok |-> TRUE, cls |-> "fin", neg |-> FALSE, exp |-> 0]
      [] s \in {"25.0", "42"} -> [ok |-> TRUE, cls |-> "fin", neg |-> FALSE, exp |-> 1]
      [] s = "9e99" -> [ok |-> TRUE, cls |-> "fin", neg |-> FALSE, exp |-> 99]
      [] s = "-9e99" -> [ok |-> TRUE, cls |-> "fin", neg |-> TRUE, exp |-> 99]
      [] s = "1e100" -> [ok |-> TRUE, cls |-> "fin", neg |-> FALSE, exp |-> 100]
      [] s = "-1e100" -> [ok |-> TRUE, cls |-> "fin", neg |-> TRUE, exp |-> 100]
      [] s = "1e+101" -> [ok |-> TRUE, cls |-> "fin", neg |-> FALSE, exp |-> 101]
      [] s = "inf" -> [ok |-> TRUE, cls |-> "inf", neg |-> FALSE, exp |-> 0]
      [] s = "-inf" -> [ok |-> TRUE, cls |-> "inf", neg |-> TRUE, exp |-> 0]
      [] s = "nan" -> [ok |-> TRUE, cls |-> "nan", neg |-> FALSE, exp |-> 0]
      [] OTHER -> [ok |-> FALSE, cls |-> "none", neg |-> FALSE, exp |-> 0]

\* -1e100 < num_val < 1e100
InRange(f) == f.cls = "fin" /\ f.exp < RangeExp

\* a sanity check with the step test inverted
SanityCheckCalculator_nosteps(solution_data) ==
    IF solution_data.final_answer \in {NoneV, ""} THEN FALSE
    ELSE IF FloatOf(solution_data.final_answer).ok
            /\ ~InRange(FloatOf(solution_data.final_answer)) THEN FALSE
    ELSE IF solution_data.steps # <<>> THEN FALSE
    ELSE TRUE

\* _sanity_check_calculator
SanityCheckCalculator(solution_data) ==
    IF solution_data.final_answer \in {NoneV, ""} THEN FALSE
    ELSE IF FloatOf(solution_data.final_answer).ok
            /\ ~InRange(FloatOf(solution_data.final_answer)) THEN FALSE
    ELSE IF solution_data.steps = <<>> THEN FALSE
    ELSE TRUE

\* adjusted_confidence as decoded: a number (hundredths), a string, or missing
Conf(t, n) == [t |-> t, n |-> n]
NoConf == Conf("absent", 0)

Verdict(c, q, a) == [is_correct |-> c, critique |-> q, adjusted_confidence |-> a]

NoVerdict == [kind |-> "none", d |-> Verdict(Absent, Absent, NoConf)]

VerdictObjs ==
    { Verdict(c, "critique text", a) :
        c \in {Absent, "true", "false"},
        a \in {NoConf, Conf("str", 0)}
              \cup { Conf("num", n) : n \in {50, 60, 70, 71} } }
    \cup { Verdict("true", Absent, Conf("num", 71)) }

VerifierResponses ==
    { Response(f, p, "object", o) : f \in BOOLEAN, p \in BOOLEAN, o \in VerdictObjs }
    \cup { Response(f, p, b, Verdict(Absent, Absent, NoConf)) :
             f \in BOOLEAN, p \in BOOLEAN, b \in {"array", "garbage"} }

\* a verify that always uses the strict prompt
Verify_alwaysstrict(solution_data, strict, resp) ==
    IF solution_data.tool_used = "calculator" /\ SanityCheckCalculator(solution_data)
    THEN [result |-> [kind |-> "dict",
                      d |-> Verdict("true", "Correct (verified by SymPy calculator)",
                                    Conf("num", 100))],
          calls |-> <<>>]
    ELSE LET j == ExtractJson(resp)
             who == "verifier.model(strict)"
         IN  IF j.kind = "error"
             THEN [result |-> [kind |-> "dict",
                               d |-> Verdict("false", "JSON parsing failed",
                                             Conf("num", 0))],
                   calls |-> <<who>>]
             ELSE [result |-> j, calls |-> <<who>>]

\* a verify that always asks the evaluator in strict mode
Verify_strictasks(solution_data, strict, resp) ==
    IF solution_data.tool_used = "calculator" /\ SanityCheckCalculator(solution_data)
       /\ ~strict
    THEN [result |-> [kind |-> "dict",
                      d |-> Verdict("true", "Correct (verified by SymPy calculator)",
                                    Conf("num", 100))],
          calls |-> <<>>]
    ELSE LET j == ExtractJson(resp)
             who == IF strict THEN "verifier.model(strict)" ELSE "verifier.model"
         IN  IF j.kind = "error"
             THEN [result |-> [kind |-> "dict",
                               d |-> Verdict("false", "JSON parsing failed",
                                             Conf("num", 0))],
                   calls |-> <<who>>]
             ELSE [result |-> j, calls |-> <<who>>]

\* VerifierAgent.verify: the verdict, and whether the critique evaluator
\* was invoked (with the strict prompt or the plain one).
Verify(solution_data, strict, resp) ==
    IF solution_data.tool_used = "calculator" /\ SanityCheckCalculator(solution_data)
    THEN [result |-> [kind |-> "dict",
                      d |-> Verdict("true", "Correct (verified by SymPy calculator)",
                                    Conf("num", 100))],
          calls |-> <<>>]
    ELSE LET j == ExtractJson(resp)
             who == IF strict THEN "verifier.model(strict)" ELSE "verifier.model"
         IN  IF j.kind = "error"
             THEN [result |-> [kind |-> "dict",
                               d |-> Verdict("false", "JSON parsing failed",
                                             Conf("num", 0))],
                   calls |-> <<who>>]
             ELSE [result |-> j, calls |-> <<who>>]

(***************************************************************************)
(* Router (agents/intent_router_agent.py) and explainer                    *)
(* (agents/explainer_agent.py).                                            *)
(***************************************************************************)
RouterReplies == {"ARITHMETIC", " arithmetic\n", "Algebra"}

\* response.content.strip().upper()
Route(reply) ==
    CASE reply = " arithmetic\n" -> "ARITHMETIC"
      [] reply = "Algebra" -> "ALGEBRA"
      [] OTHER -> reply

\* Explainer replies: a JSON object, text without braces, broken JSON
ExplainerReplies == {"object", "no braces", "broken"}

\* ExplainerAgent.explain: always a dict
Explain(reply, category) ==
    CASE reply = "object" -> [concept |-> "from model", error |-> Absent]
      [] reply = "no braces" -> [concept |-> category, error |-> Absent]
      [] OTHER -> [concept |-> category, error |-> "json error"]

NoExplanation == [concept |-> NoneV, error |-> Absent]

(***************************************************************************)
(* Parser (agents/parser_agent.py).                                        *)
(***************************************************************************)
\* OCR / ASR outputs in use, with len(text), whether a corruption marker
\* occurs in it, and its number of alphanumeric or space characters.
ExtractedTexts ==
    {"ERROR_OCR_FAILED", "ERROR_ASR_FAILED", "ab", "x^2 = 4", "((+))=", "2x -- 3", ""}

TextLen(t) ==
    CASE t \in {"ERROR_OCR_FAILED", "ERROR_ASR_FAILED"} -> 16
      [] t = "ab" -> 2
      [] t = "x^2 = 4" -> 7
      [] t = "((+))=" -> 6
      [] t = "2x -- 3" -> 7
      [] OTHER -> 0

HasMarker(t) == t \in {"ERROR_OCR_FAILED", "ERROR_ASR_FAILED", "2x -- 3"}

CleanChars(t) ==
    CASE t \in {"ERROR_OCR_FAILED", "ERROR_ASR_FAILED"} -> 14
      [] t = "ab" -> 2
      [] t = "x^2 = 4" -> 5
      [] t = "((+))=" -> 0
      [] t = "2x -- 3" -> 5
      [] OTHER -> 0

\* a corruption check without the marker test
LooksCorrupted_nomarkers(t) ==
    \/ ~Truthy(t)
    \/ TextLen(t) < 3
    \/ 2 * CleanChars(t) < TextLen(t)

\* looks_corrupted
LooksCorrupted(t) ==
    \/ ~Truthy(t)
    \/ TextLen(t) < 3
    \/ HasMarker(t)
    \/ 2 * CleanChars(t) < TextLen(t)

Parsed(pt, it, amb, why) ==
    [problem_text |-> pt, input_type |-> it, is_ambiguous |-> amb,
     ambiguity_reason |-> why]

ProblemTexts == {"", "10^101", "half of ten"}

ParserObjs ==
    { Parsed(pt, "text", amb, why) :
        pt \in ProblemTexts \cup {Absent},
        amb \in {Absent, "true", "false"},
        why \in {Absent, "null", "unclear"} }

ParserResponses ==
    { Response(f, p, "object", o) : f \in BOOLEAN, p \in BOOLEAN, o \in ParserObjs }
    \cup { Response(f, p, b, Parsed(Absent, Absent, Absent, Absent)) :
             f \in BOOLEAN, p \in BOOLEAN, b \in {"array", "garbage"} }

\* What one parser run is given: the typed text (or None), the OCR output
\* of the image (None without an image), the ASR output of the audio (None
\* without audio) and the reply of the parser model.
ParserInputs ==
    [text : {NoneV, "", "typed text"},
     ocr : {NoneV} \cup (ExtractedTexts \ {"ERROR_ASR_FAILED"}),
     asr : {NoneV} \cup (ExtractedTexts \ {"ERROR_OCR_FAILED"}),
     resp : ParserResponses]

\* an enforcement that trusts the flag of the model
EnforceAmbiguity_trusting(data) ==
    IF Truthy(data.is_ambiguous)
    THEN IF Truthy(data.ambiguity_reason) THEN data
         ELSE [data EXCEPT !.ambiguity_reason =
                 "Ambiguous input detected (unspecified by parser)"]
    ELSE data

\* run, lines 168-177: "Ambiguity Contract Enforcement"
EnforceAmbiguity(data) ==
    IF Truthy(data.ambiguity_reason)
    THEN [data EXCEPT !.is_ambiguous = "true"]
    ELSE IF Truthy(data.is_ambiguous)
    THEN [data EXCEPT !.ambiguity_reason =
            "Ambiguous input detected (unspecified by parser)"]
    ELSE [data EXCEPT !.ambiguity_reason = NoneV]

\* ParserAgent.run: the record returned and whether the model was invoked
ParserRun(in) ==
    IF in.ocr # NoneV /\ LooksCorrupted(in.ocr)
    THEN [result |-> Parsed("", "image", "true", "OCR output is corrupted or unreadable"),
          calls |-> <<>>]
    ELSE IF in.asr # NoneV /\ LooksCorrupted(in.asr)
    THEN [result |-> Parsed("", "audio", "true",
                            "Audio transcript is corrupted or unintelligible"),
          calls |-> <<>>]
    ELSE IF in.ocr = NoneV /\ in.asr = NoneV /\ ~Truthy(in.text)
    THEN [result |-> Parsed("", "none", "true", "No valid input provided"),
          calls |-> <<>>]
    ELSE
    LET j == ExtractJson(in.resp)
        data == j.d
        failed == Parsed("combined raw input", "input_sources", "true", "Parser Error")
    IN
    IF j.kind # "dict" THEN [result |-> failed, calls |-> <<"parser.model">>]
    ELSE IF \E k \in {"problem_text", "input_type", "is_ambiguous", "ambiguity_reason"} :
                data[k] = Absent
    THEN [result |-> failed, calls |-> <<"parser.model">>]
    ELSE [result |-> EnforceAmbiguity(data), calls |-> <<"parser.model">>]

(***************************************************************************)
(* Orchestrator (core/orchestrator.py) and PipelineState (core/types.py).  *)
(***************************************************************************)
\* Bounds of the model: orchestrator operations per behaviour, and how many
\* of them run the solve phase (start_pipeline, corrected-text resumption)
MaxOps == 3
MaxRuns == 2

\* Session ids: uuid4 strings or caller-given ids; the first eight
\* characters are what learn_from_success keeps.
SessionIds == {"aaaaaaaa-1"}

\* state.session_id[:8]
Prefix8(sid) ==
    CASE sid \in {"aaaaaaaa-1", "aaaaaaaa-2"} -> "aaaaaaaa"
      [] OTHER -> sid

\* Decision thresholds, in hundredths
ToolFloor == 50
SolverHigh == 90
VerifierHigh == 70
SolverOverride == 95
DefaultVerifierConf == 100

Reason(prefix, text, cs, cv) ==
    [prefix |-> prefix, text |-> text, solver |-> cs, verifier |-> cv]

NoReason == Reason(NoneV, NoneV, 0, NoConf)

\* PipelineState(session_id=...) with the defaults of core/types.py
PipelineState(sid) ==
    [session_id |-> sid,
     step |-> "init",
     parsed_data |-> Parsed(Absent, Absent, Absent, Absent),
     problem_category |-> NoneV,
     solution_plan |-> NoneV,
     solution_steps |-> <<>>,
     final_answer |-> NoneV,
     confidence |-> 0,
     tool_used |-> NoneV,
     rag_context |-> NoneV,
     verification_passed |-> "false",
     critique |-> NoneV,
     explanation |-> NoExplanation,
     needs_hitl |-> FALSE,
     hitl_reason |-> NoReason]

\* a log that files every entry under the session that wrote first
LogInteraction_firstid(lg, sid, role) ==
    Append(lg, [session_id |-> IF lg = <<>> THEN sid ELSE lg[1].session_id,
                role |-> role])

\* memory.log_interaction(session_id, role, content)
LogInteraction(lg, sid, role) == Append(lg, [session_id |-> sid, role |-> role])

\* The outcome of an orchestrator method: the state as the method leaves
\* it, the log, the collaborators invoked, the verdict obtained, and
\* whether the method raised instead of returning, and the values it
\* assigned to step.
Outcome(st, lg, cl, ver, r, tr) ==
    [state |-> st, log |-> lg, calls |-> cl, verification |-> ver, raised |-> r,
     trace |-> tr]

\* a policy that is skipped: the flag stays as the resumption cleared it
HitlPolicy_skipped(tool_used, passed, critique, solver_conf, adjusted) ==
    [needs_hitl |-> FALSE, set_reason |-> FALSE, reason |-> NoReason,
     raised |-> FALSE]

\* a policy whose verifier threshold is not strict
HitlPolicy_nonstrict(tool_used, passed, critique, solver_conf, adjusted) ==
    LET verifier_conf == IF adjusted.t = "absent"
                         THEN Conf("num", DefaultVerifierConf) ELSE adjusted
        keep(r) == [needs_hitl |-> TRUE, set_reason |-> TRUE, reason |-> r,
                    raised |-> FALSE]
        clear == [needs_hitl |-> FALSE, set_reason |-> FALSE, reason |-> NoReason,
                  raised |-> FALSE]
        fault == [needs_hitl |-> TRUE, set_reason |-> FALSE, reason |-> NoReason,
                  raised |-> TRUE]
    IN
    IF tool_used = "calculator"
    THEN IF verifier_conf.t = "str" THEN fault
         ELSE IF verifier_conf.n > ToolFloor THEN clear
         ELSE keep(Reason("Calculator Sanity Check Failed", critique, 0, NoConf))
    ELSE IF Truthy(passed) /\ solver_conf > SolverHigh /\ verifier_conf.t = "str"
    THEN fault
    ELSE IF Truthy(passed) /\ solver_conf > SolverHigh
            /\ verifier_conf.n >= VerifierHigh
    THEN clear
    ELSE IF Truthy(passed) /\ solver_conf > SolverOverride
    THEN clear
    ELSE keep(Reason("Verification Failed", critique, solver_conf, verifier_conf))

\* a policy whose tool branch also asks for a passing verdict
HitlPolicy_toolverdict(tool_used, passed, critique, solver_conf, adjusted) ==
    LET verifier_conf == IF adjusted.t = "absent"
                         THEN Conf("num", DefaultVerifierConf) ELSE adjusted
        keep(r) == [needs_hitl |-> TRUE, set_reason |-> TRUE, reason |-> r,
                    raised |-> FALSE]
        clear == [needs_hitl |-> FALSE, set_reason |-> FALSE, reason |-> NoReason,
                  raised |-> FALSE]
        fault == [needs_hitl |-> TRUE, set_reason |-> FALSE, reason |-> NoReason,
                  raised |-> TRUE]
    IN
    IF tool_used = "calculator"
    THEN IF verifier_conf.t = "str" THEN fault
         ELSE IF Truthy(passed) /\ verifier_conf.n > ToolFloor THEN clear
         ELSE keep(Reason("Calculator Sanity Check Failed", critique, 0, NoConf))
    ELSE IF Truthy(passed) /\ solver_conf > SolverHigh /\ verifier_conf.t = "str"
    THEN fault
    ELSE IF Truthy(passed) /\ solver_conf > SolverHigh
            /\ verifier_conf.n > VerifierHigh
    THEN clear
    ELSE IF Truthy(passed) /\ solver_conf > SolverOverride
    THEN clear
    ELSE keep(Reason("Verification Failed", critique, solver_conf, verifier_conf))

\* a policy that keeps the flag without saying why
HitlPolicy_noreason(tool_used, passed, critique, solver_conf, adjusted) ==
    LET verifier_conf == IF adjusted.t = "absent"
                         THEN Conf("num", DefaultVerifierConf) ELSE adjusted
        keep(r) == [needs_hitl |-> TRUE, set_reason |-> FALSE, reason |-> r,
                    raised |-> FALSE]
        clear == [needs_hitl |-> FALSE, set_reason |-> FALSE, reason |-> NoReason,
                  raised |-> FALSE]
        fault == [needs_hitl |-> TRUE, set_reason |-> FALSE, reason |-> NoReason,
                  raised |-> TRUE]
    IN
    IF tool_used = "calculator"
    THEN IF verifier_conf.t = "str" THEN fault
         ELSE IF verifier_conf.n > ToolFloor THEN clear
         ELSE keep(Reason("Calculator Sanity Check Failed", critique, 0, NoConf))
    ELSE IF Truthy(passed) /\ solver_conf > SolverHigh /\ verifier_conf.t = "str"
    THEN fault
    ELSE IF Truthy(passed) /\ solver_conf > SolverHigh
            /\ verifier_conf.n > VerifierHigh
    THEN clear
    ELSE IF Truthy(passed) /\ solver_conf > SolverOverride
    THEN clear
    ELSE keep(Reason("Verification Failed", critique, solver_conf, verifier_conf))

\* "Smart HITL Logic", lines 89-110: needs_hitl and the reason set, or
\* raised when a comparison with a non-numeric adjusted_confidence faults.
\* verifier_conf is verification.get("adjusted_confidence", 1.0).
HitlPolicy(tool_used, passed, critique, solver_conf, adjusted) ==
    LET verifier_conf == IF adjusted.t = "absent"
                         THEN Conf("num", DefaultVerifierConf) ELSE adjusted
        keep(r) == [needs_hitl |-> TRUE, set_reason |-> TRUE, reason |-> r,
                    raised |-> FALSE]
        clear == [needs_hitl |-> FALSE, set_reason |-> FALSE, reason |-> NoReason,
                  raised |-> FALSE]
        fault == [needs_hitl |-> TRUE, set_reason |-> FALSE, reason |-> NoReason,
                  raised |-> TRUE]
    IN
    IF tool_used = "calculator"
    THEN IF verifier_conf.t = "str" THEN fault
         ELSE IF verifier_conf.n > ToolFloor THEN clear
         ELSE keep(Reason("Calculator Sanity Check Failed", critique, 0, NoConf))
    ELSE IF Truthy(passed) /\ solver_conf > SolverHigh /\ verifier_conf.t = "str"
    THEN fault
    ELSE IF Truthy(passed) /\ solver_conf > SolverHigh
            /\ verifier_conf.n > VerifierHigh
    THEN clear
    ELSE IF Truthy(passed) /\ solver_conf > SolverOverride
    THEN clear
    ELSE keep(Reason("Verification Failed", critique, solver_conf, verifier_conf))

\* run_solver_phase, given what solve, verify and explain answer.
\* sol is the outcome of Solve, vresp the reply of the critique evaluator,
\* ereply the reply of the explainer model.
RunSolverPhase(st, lg, sol, vresp, ereply) ==
    IF sol.raised
    THEN Outcome(st, lg, <<"solver.solve">> \o sol.calls, NoVerdict, TRUE, <<>>)
    ELSE
    LET solution == sol.result
        s1 == [st EXCEPT !.solution_steps = solution.steps,
                         !.final_answer = solution.final_answer,
                         !.confidence = solution.confidence,
                         !.solution_plan = solution.plan,
                         !.rag_context = Get(solution, "context", "No context retrieved"),
                         !.tool_used = Get(solution, "tool_used", NoneV),
                         !.step = "solved"]
        l1 == LogInteraction(lg, st.session_id, "solver")
        ver == Verify([steps |-> s1.solution_steps, final_answer |-> s1.final_answer,
                       tool_used |-> s1.tool_used], FALSE, vresp)
        verdict == ver.result
        c1 == <<"solver.solve">> \o sol.calls \o <<"verifier.verify">> \o ver.calls
    IN
    IF verdict.kind # "dict" \/ verdict.d.is_correct = Absent
    THEN Outcome(s1, l1, c1, verdict, TRUE, <<"solved">>)
    ELSE
    LET s2 == [s1 EXCEPT !.verification_passed = verdict.d.is_correct,
                         !.critique = Get(verdict.d, "critique", "")]
        l2 == LogInteraction(l1, st.session_id, "verifier")
        pol == HitlPolicy(s2.tool_used, s2.verification_passed, s2.critique,
                          s2.confidence, verdict.d.adjusted_confidence)
        s3 == [s2 EXCEPT !.needs_hitl = pol.needs_hitl,
                         !.hitl_reason = IF pol.set_reason THEN pol.reason ELSE @]
    IN
    IF pol.raised THEN Outcome(s3, l2, c1, verdict, TRUE, <<"solved">>)
    ELSE IF s3.needs_hitl
    THEN Outcome([s3 EXCEPT !.step = "verified"], l2, c1, verdict, FALSE,
                 <<"solved", "verified">>)
    ELSE Outcome([s3 EXCEPT !.explanation = Explain(ereply, s3.problem_category),
                            !.step = "complete"],
                 LogInteraction(l2, st.session_id, "explainer"),
                 c1 \o <<"explainer.explain">>, verdict, FALSE,
                 <<"solved", "complete">>)

\* a start that always makes its own id
SessionIdFor_alwaysfresh(given, fresh) == fresh

\* start_pipeline, lines 27-28: the caller's id, or str(uuid.uuid4())
SessionIdFor(given, fresh) == IF Truthy(given) THEN given ELSE fresh

\* run_solver_phase, lines 60-73: the solve stage
SolveStage(st, lg, sol) ==
    [state |-> [st EXCEPT
                   !.solution_steps = sol.result.steps,
                   !.final_answer = sol.result.final_answer,
                   !.confidence = sol.result.confidence,
                   !.solution_plan = sol.result.plan,
                   !.rag_context = Get(sol.result, "context", "No context retrieved"),
                   !.tool_used = Get(sol.result, "tool_used", NoneV),
                   !.step = "solved"],
     log |-> LogInteraction(lg, st.session_id, "solver")]

\* run_solver_phase, lines 77-114: the verify stage and the decision, for
\* a verdict that is a dict with is_correct and a usable confidence
VerifyStage(st, lg, vresp) ==
    LET verdict == Verify([steps |-> st.solution_steps,
                           final_answer |-> st.final_answer,
                           tool_used |-> st.tool_used], FALSE, vresp).result
        s2 == [st EXCEPT !.verification_passed = verdict.d.is_correct,
                         !.critique = Get(verdict.d, "critique", "")]
        pol == HitlPolicy(s2.tool_used, s2.verification_passed, s2.critique,
                          s2.confidence, verdict.d.adjusted_confidence)
        s3 == [s2 EXCEPT !.needs_hitl = pol.needs_hitl,
                         !.hitl_reason = IF pol.set_reason THEN pol.reason ELSE @]
    IN  [state |-> IF s3.needs_hitl THEN [s3 EXCEPT !.step = "verified"] ELSE s3,
         log |-> LogInteraction(lg, st.session_id, "verifier")]

\* run_solver_phase, lines 117-125: the explain stage
ExplainStage(st, lg, ereply) ==
    [state |-> [st EXCEPT !.explanation = Explain(ereply, st.problem_category),
                          !.step = "complete"],
     log |-> LogInteraction(lg, st.session_id, "explainer")]

(***************************************************************************)
(* Sessions that share one Orchestrator.  A slot holds the PipelineState   *)
(* of one session (the object the running method works on, or the one the  *)
(* caller holds between operations), the stage the running operation has   *)
(* reached, and the session_id the caller passed to start_pipeline.        *)
(***************************************************************************)
Slots == {"A", "B"}

NewSession == [state |-> PipelineState(NoneV), pc |-> "new", given |-> NoneV]

\* ids that callers pass, and the values of str(uuid.uuid4()) in use
CallerIds == {"caller-1"}

Uuid4(s) == IF s = "A" THEN "aaaaaaaa-1" ELSE "aaaaaaaa-2"

\* a learn_from_success that repeats a failed add
LearnFromSuccess_retrying(st, kbv, store) ==
    IF ~Truthy(st.parsed_data.problem_text) \/ ~Truthy(st.final_answer)
    THEN [kb |-> kbv, calls |-> <<>>]
    ELSE LET doc_id == <<"learn", Prefix8(st.session_id)>>
             doc == [id |-> doc_id,
                     problem_text |-> st.parsed_data.problem_text,
                     solution_plan |-> st.solution_plan,
                     final_answer |-> st.final_answer,
                     category |-> st.problem_category]
         IN  [kb |-> IF ~\E d \in kbv : d.id = doc_id
                     THEN kbv \cup {doc} ELSE kbv,
              calls |-> IF store = "ok"
                        THEN <<"vector_store.add_documents">>
                        ELSE <<"vector_store.add_documents: raised",
                               "vector_store.add_documents">>]

\* a learn_from_success without the emptiness guard
LearnFromSuccess_unguarded(st, kbv, store) ==
    LET doc_id == <<"learn", Prefix8(st.session_id)>>
        doc == [id |-> doc_id,
                problem_text |-> st.parsed_data.problem_text,
                solution_plan |-> st.solution_plan,
                final_answer |-> st.final_answer,
                category |-> st.problem_category]
    IN  [kb |-> IF store = "ok" /\ ~\E d \in kbv : d.id = doc_id
                THEN kbv \cup {doc} ELSE kbv,
         calls |-> <<IF store = "ok" THEN "vector_store.add_documents"
                                     ELSE "vector_store.add_documents: raised">>]

\* learn_from_success: the knowledge store after it, and the add it issued.
\* store is what collection.add does: "ok", or "raise" (swallowed here).
\* An add under an id the store already holds leaves the stored record.
LearnFromSuccess(st, kbv, store) ==
    IF ~Truthy(st.parsed_data.problem_text) \/ ~Truthy(st.final_answer)
    THEN [kb |-> kbv, calls |-> <<>>]
    ELSE LET doc_id == <<"learn", Prefix8(st.session_id)>>
             doc == [id |-> doc_id,
                     problem_text |-> st.parsed_data.problem_text,
                     solution_plan |-> st.solution_plan,
                     final_answer |-> st.final_answer,
                     category |-> st.problem_category]
         IN  [kb |-> IF store = "ok" /\ ~\E d \in kbv : d.id = doc_id
                     THEN kbv \cup {doc} ELSE kbv,
              calls |-> <<IF store = "ok" THEN "vector_store.add_documents"
                                          ELSE "vector_store.add_documents: raised">>]

(***************************************************************************)
(* Inputs of the pipeline specification.                                   *)
(***************************************************************************)
Feedback(c, o, a) == [corrected_text |-> c, override_answer |-> o, approve |-> a]

NoFeedback == Feedback(Absent, Absent, Absent)

Feedbacks ==
    { Feedback("half of ten", Absent, Absent), Feedback("", "7", "true"),
      Feedback(Absent, "7", Absent), Feedback(Absent, "", Absent),
      Feedback(Absent, Absent, "true"), Feedback(Absent, Absent, "false"),
      NoFeedback,
      Feedback(Absent, "7", "true") }

PipelineParserInputs ==
    { [text |-> "typed text", ocr |-> NoneV, asr |-> NoneV,
       resp |-> Response(FALSE, TRUE, "object", Parsed(pt, "text", amb, why))] :
        pt \in {"", "half of ten"}, amb \in {"true", "false"},
        why \in {"null", "unclear"} }
    \cup
    { [text |-> "typed text", ocr |-> NoneV, asr |-> NoneV,
       resp |-> Response(FALSE, FALSE, "garbage", Parsed(Absent, Absent, Absent, Absent))],
      [text |-> "typed text", ocr |-> "ERROR_OCR_FAILED", asr |-> NoneV,
       resp |-> Response(FALSE, FALSE, "garbage", Parsed(Absent, Absent, Absent, Absent))],
      [text |-> NoneV, ocr |-> NoneV, asr |-> NoneV,
       resp |-> Response(FALSE, FALSE, "garbage", Parsed(Absent, Absent, Absent, Absent))] }

PipelineRouterReplies == {" arithmetic\n", "Algebra"}

PipelineGuardResponses ==
    { Response(FALSE, TRUE, "object", GuardObj("true", "null", Absent, "EXECUTE")),
      Response(TRUE, TRUE, "object",
               GuardObj("true", "Rule 5", "why", "SWITCH_STRATEGY")),
      Response(FALSE, FALSE, "object",
               GuardObj("false", "Rule 5", "why", "TRIGGER_HITL")),
      Response(FALSE, FALSE, "object", GuardObj(Absent, Absent, Absent, "EXECUTE")),
      Response(FALSE, FALSE, "garbage", NoGuardObj),
      Response(TRUE, FALSE, "array", NoGuardObj) }

PipelineExecOutputs ==
    { <<STEPS, "1. isolate x", "2. divide", FINAL_ANSWER, " 42 ", CONFIDENCE, c>> :
        c \in {"0.9", "0.92", "0.95", "0.96"} }
    \cup
    { <<STEPS, "1. isolate x", FINAL_ANSWER, CONFIDENCE, "0.96">>,
      <<"The answer is 42">> }

PipelineSolveEnvs ==
    [reply : {"10/2", "10**101", "((", "ERROR_NOT_MATH"},
     docs : {<<"long document">>}, plan : Plans,
     guard : PipelineGuardResponses, exec : PipelineExecOutputs]

PipelineVerifierResponses ==
    { Response(FALSE, TRUE, "object", Verdict(c, "critique text", a)) :
        c \in {"true", "false"},
        a \in {NoConf, Conf("str", 0)}
              \cup { Conf("num", n) : n \in {50, 60, 70, 71} } }
    \cup
    { Response(FALSE, TRUE, "object", Verdict(Absent, "critique text", Conf("num", 71))),
      Response(FALSE, FALSE, "garbage", Verdict(Absent, Absent, NoConf)),
      Response(TRUE, FALSE, "array", Verdict(Absent, Absent, NoConf)) }

PipelineExplainerReplies == {"broken"}

\* The outcomes of solver.solve(problem_text, problem_type=category)
SolveOutcomes ==
    [pt \in ProblemTexts \cup {"combined raw input"},
     cat \in {"ARITHMETIC", "ALGEBRA"} |->
        { Solve(pt, cat, "", env) : env \in PipelineSolveEnvs }]

(***************************************************************************)
(* The pipeline specification: one session driven through the              *)
(* orchestrator.  start_pipeline creates the session; a session paused     *)
(* for human review is resumed with feedback; a completed session can get  *)
(* positive (learn_from_success) or negative (handle_failure_feedback)     *)
(* feedback, as the UI offers them (ui/app.py).                            *)
(***************************************************************************)
Op(name, fb, st) ==
    [name |-> name, feedback |-> fb, from_step |-> st.step,
     from_needs_hitl |-> st.needs_hitl]

Halted(st) == st.needs_hitl /\ st.step \in {"parsed", "verified"}

Init ==
    /\ state = PipelineState(NoneV)
    /\ log = <<>>
    /\ kb = {}
    /\ calls = <<>>
    /\ raised = FALSE
    /\ op = Op("none", NoFeedback, PipelineState(NoneV))
    /\ verification = NoVerdict
    /\ nops = 0
    /\ nruns = 0
    /\ trace = <<>>
    /\ probe = [fn |-> "none"]
    /\ sess = [s \in Slots |-> NewSession]

\* a halt that forgets the reason
AmbiguousHalt_noreason(s0, parsed) ==
    [s0 EXCEPT !.needs_hitl = TRUE, !.step = "parsed"]

\* start_pipeline, lines 43-47: the halt on an ambiguous parse
AmbiguousHalt(s0, parsed) ==
    [s0 EXCEPT !.needs_hitl = TRUE,
               !.hitl_reason = Reason("Ambiguous Input", parsed.ambiguity_reason,
                                      0, NoConf),
               !.step = "parsed"]

\* an override that stops before the final step assignment
ApplyOverride_unfinished(st, answer, ereply) ==
    [st EXCEPT !.final_answer = answer,
               !.needs_hitl = FALSE,
               !.verification_passed = "true",
               !.explanation = Explain(ereply, st.problem_category),
               !.step = "verified"]

\* resume_with_feedback, lines 172-185: the user's answer replaces the
\* solver's and is explained
ApplyOverride(st, answer, ereply) ==
    [st EXCEPT !.final_answer = answer,
               !.needs_hitl = FALSE,
               !.verification_passed = "true",
               !.explanation = Explain(ereply, st.problem_category),
               !.step = "complete"]

\* an approval that also marks the answer as fully trusted
ApplyApprove_trusted(st, ereply) ==
    [st EXCEPT !.needs_hitl = FALSE,
               !.verification_passed = "true",
               !.confidence = 100,
               !.explanation = Explain(ereply, st.problem_category),
               !.step = "complete"]

\* resume_with_feedback, lines 194-204: proceed despite the verdict
ApplyApprove(st, ereply) ==
    [st EXCEPT !.needs_hitl = FALSE,
               !.verification_passed = "true",
               !.explanation = Explain(ereply, st.problem_category),
               !.step = "complete"]

\* start_pipeline(text, image_path, audio_path, session_id)
StartPipeline ==
    /\ nops = 0
    /\ \E given \in SessionIds \cup {NoneV}, in \in PipelineParserInputs :
       \E fresh \in (IF Truthy(given) THEN {given} ELSE SessionIds) :
        LET session_id == SessionIdFor(given, fresh)
            parsed == ParserRun(in)
            s0 == [PipelineState(session_id) EXCEPT !.parsed_data = parsed.result]
            l0 == LogInteraction(log, session_id, "parser")
            c0 == <<"parser.run">> \o parsed.calls
        IN
        IF Truthy(parsed.result.is_ambiguous)
        THEN /\ state' = AmbiguousHalt(s0, parsed.result)
             /\ nruns' = nruns
             /\ log' = l0
             /\ calls' = c0
             /\ raised' = FALSE
             /\ verification' = NoVerdict
             /\ trace' = <<"parsed">>
        ELSE \E rreply \in PipelineRouterReplies :
             LET category == Route(rreply)
                 s1 == [s0 EXCEPT !.problem_category = category, !.step = "routed"]
                 l1 == LogInteraction(l0, session_id, "router")
             IN  \E sol \in SolveOutcomes[s1.parsed_data.problem_text, category],
                    vresp \in PipelineVerifierResponses,
                    ereply \in PipelineExplainerReplies :
                 LET out == RunSolverPhase(s1, l1, sol, vresp, ereply)
                 IN  /\ state' = IF out.raised THEN state ELSE out.state
                     /\ nruns' = nruns + 1
                     /\ log' = out.log
                     /\ calls' = c0 \o <<"router.route">> \o out.calls
                     /\ raised' = out.raised
                     /\ verification' = out.verification
                     /\ trace' = <<"routed">> \o out.trace
    /\ op' = Op("start_pipeline", NoFeedback, state)
    /\ nops' = nops + 1
    /\ UNCHANGED <<kb, probe, sess>>

\* a selection that takes the approve branch whenever the key is present
FeedbackBranch_anyapprove(fb) ==
    IF fb.corrected_text # Absent THEN "corrected_text"
    ELSE IF fb.override_answer # Absent THEN "override_answer"
    ELSE IF fb.approve # Absent THEN "approve"
    ELSE "none"

\* a selection that lets a true approve win over an override
FeedbackBranch_approvefirst(fb) ==
    IF fb.corrected_text # Absent THEN "corrected_text"
    ELSE IF Truthy(fb.approve) THEN "approve"
    ELSE IF fb.override_answer # Absent THEN "override_answer"
    ELSE "none"

\* resume_with_feedback, lines 159, 170, 192 and 211: the branch taken, the
\* first of the three tests that succeeds
FeedbackBranch(fb) ==
    IF fb.corrected_text # Absent THEN "corrected_text"
    ELSE IF fb.override_answer # Absent THEN "override_answer"
    ELSE IF Truthy(fb.approve) THEN "approve"
    ELSE "none"

\* resume_with_feedback(state, feedback) on a session paused for review
ResumeWithFeedback ==
    /\ Halted(state)
    /\ ~raised
    /\ nops < MaxOps
    /\ \E fb \in Feedbacks :
        /\ op' = Op("resume_with_feedback", fb, state)
        /\ IF FeedbackBranch(fb) = "corrected_text"
           THEN /\ nruns < MaxRuns
                /\ nruns' = nruns + 1
                /\ \E rreply \in PipelineRouterReplies :
                   LET s0 == [state EXCEPT
                                !.parsed_data.problem_text = fb.corrected_text,
                                !.parsed_data.is_ambiguous = "false",
                                !.needs_hitl = FALSE,
                                !.problem_category = Route(rreply)]
                   IN  \E sol \in SolveOutcomes[fb.corrected_text, Route(rreply)],
                          vresp \in PipelineVerifierResponses,
                          ereply \in PipelineExplainerReplies :
                       LET out == RunSolverPhase(
                                     s0, log, sol, vresp, ereply)
                       IN  /\ state' = out.state
                           /\ log' = out.log
                           /\ calls' = <<"router.route">> \o out.calls
                           /\ raised' = out.raised
                           /\ verification' = out.verification
                           /\ trace' = out.trace
                           /\ kb' = kb
           ELSE IF FeedbackBranch(fb) = "override_answer"
           THEN \E ereply \in PipelineExplainerReplies, store \in {"ok", "raise"} :
                LET s1 == ApplyOverride(state, fb.override_answer, ereply)
                    learn == LearnFromSuccess(s1, kb, store)
                IN  /\ state' = s1
                    /\ kb' = learn.kb
                    /\ calls' = <<"explainer.explain">> \o learn.calls
                    /\ trace' = <<"verified", "complete">>
                    /\ UNCHANGED <<log, raised, verification, nruns>>
           ELSE IF FeedbackBranch(fb) = "approve"
           THEN \E ereply \in PipelineExplainerReplies, store \in {"ok", "raise"} :
                LET s1 == ApplyApprove(state, ereply)
                    learn == LearnFromSuccess(s1, kb, store)
                IN  /\ state' = s1
                    /\ kb' = learn.kb
                    /\ calls' = <<"explainer.explain">> \o learn.calls
                    /\ trace' = <<"complete">>
                    /\ UNCHANGED <<log, raised, verification, nruns>>
           ELSE /\ calls' = <<>>
                /\ trace' = <<>>
                /\ UNCHANGED <<state, log, kb, raised, verification, nruns>>
    /\ nops' = nops + 1
    /\ UNCHANGED <<probe, sess>>

\* "Strict Review: " + critique
StrictReview(critique) ==
    CASE critique = "critique text" -> "Strict Review: critique text"
      [] critique = "JSON parsing failed" -> "Strict Review: JSON parsing failed"
      [] critique = "Correct (verified by SymPy calculator)" ->
            "Strict Review: Correct (verified by SymPy calculator)"
      [] OTHER -> "Strict Review: No issues found"

\* a strict review that reopens a failed answer at the parse stage
StrictUpdate_reopen(st, strict_result) ==
    LET passed == Get(strict_result.d, "is_correct", "false")
    IN  [st EXCEPT
            !.critique = StrictReview(
                Get(strict_result.d, "critique", "No issues found")),
            !.verification_passed = passed,
            !.step = IF ~Truthy(passed) THEN "parsed" ELSE @,
            !.hitl_reason =
                IF ~Truthy(passed)
                THEN Reason("User Rejected + Strict Verify Failed", NoneV, 0, NoConf)
                ELSE @]

\* a strict review that sends a failed answer back to human review
StrictUpdate_halting(st, strict_result) ==
    LET passed == Get(strict_result.d, "is_correct", "false")
    IN  [st EXCEPT
            !.critique = StrictReview(
                Get(strict_result.d, "critique", "No issues found")),
            !.verification_passed = passed,
            !.needs_hitl = ~Truthy(passed),
            !.hitl_reason =
                IF ~Truthy(passed)
                THEN Reason("User Rejected + Strict Verify Failed", NoneV, 0, NoConf)
                ELSE @]

\* handle_failure_feedback, lines 239-244: what the strict verdict changes
StrictUpdate(st, strict_result) ==
    LET passed == Get(strict_result.d, "is_correct", "false")
    IN  [st EXCEPT
            !.critique = StrictReview(
                Get(strict_result.d, "critique", "No issues found")),
            !.verification_passed = passed,
            !.hitl_reason =
                IF ~Truthy(passed)
                THEN Reason("User Rejected + Strict Verify Failed", NoneV, 0, NoConf)
                ELSE @]

\* handle_failure_feedback(state) on a completed session
HandleFailureFeedback ==
    /\ state.step = "complete"
    /\ ~raised
    /\ nops < MaxOps
    /\ \E vresp \in PipelineVerifierResponses :
        LET ver == Verify([steps |-> state.solution_steps,
                           final_answer |-> state.final_answer,
                           tool_used |-> state.tool_used], TRUE, vresp)
            strict_result == ver.result
        IN  /\ calls' = <<"verifier.verify(strict)">> \o ver.calls
            /\ verification' = strict_result
            /\ IF strict_result.kind # "dict"
               THEN /\ raised' = TRUE
                    /\ state' = state
               ELSE /\ raised' = FALSE
                    /\ state' = StrictUpdate(state, strict_result)
    /\ op' = Op("handle_failure_feedback", NoFeedback, state)
    /\ nops' = nops + 1
    /\ trace' = <<>>
    /\ UNCHANGED <<log, kb, nruns, probe, sess>>

\* learn_from_success(state) on a completed session (the "helpful" button)
LearnFromSuccessCall ==
    /\ state.step = "complete"
    /\ ~raised
    /\ nops < MaxOps
    /\ \E store \in {"ok", "raise"} :
        LET learn == LearnFromSuccess(state, kb, store)
        IN  /\ kb' = learn.kb
            /\ calls' = learn.calls
    /\ op' = Op("learn_from_success", NoFeedback, state)
    /\ nops' = nops + 1
    /\ trace' = <<>>
    /\ UNCHANGED <<state, log, raised, verification, nruns, probe, sess>>

Next ==
    \/ StartPipeline
    \/ ResumeWithFeedback
    \/ HandleFailureFeedback
    \/ LearnFromSuccessCall

Spec == Init /\ [][Next]_vars

(***************************************************************************)
(* The agents specification: one direct call of an agent method on an      *)
(* input drawn from the full response sets; probe holds the input and      *)
(* what the method returned.                                               *)
(***************************************************************************)
\* GuardrailAgent.check(problem_text, plan) on one evaluator response
CallGuardrailCheck ==
    /\ probe.fn = "none"
    /\ \E resp \in GuardResponses :
        probe' = [fn |-> "check", resp |-> resp, out |-> GuardrailCheck(resp)]
    /\ UNCHANGED <<state, log, kb, calls, raised, op, verification, nops, nruns, trace,
                   sess>>

\* SolverAgent.solve(problem_text, problem_type, context_str)
CallSolve ==
    /\ probe.fn = "none"
    /\ \E pt \in {"10^101", "half of ten"}, cat \in {"ARITHMETIC", "arithmetic", "ALGEBRA", "OTHER"},
          ctx \in {"", "given context"}, env \in SolveEnvs :
        \* collaborators that the call does not reach answer nothing
        /\ cat = "ARITHMETIC" =>
              /\ env.docs = <<>>
              /\ env.guard = Response(FALSE, FALSE, "garbage", NoGuardObj)
              /\ env.exec = <<"The answer is 42">>
              /\ ctx = ""
        /\ cat # "ARITHMETIC" => env.reply = "raise"
        /\ (cat # "ARITHMETIC" /\ ctx # "") => env.docs = <<>>
        /\ (cat # "ARITHMETIC" /\ ~Truthy(Get(GuardrailCheck(env.guard).d, "is_safe", "false")))
              => env.exec = <<"The answer is 42">>
        /\ probe' = [fn |-> "solve", problem_text |-> pt, problem_type |-> cat,
                     context_str |-> ctx, env |-> env,
                     guard_result |-> GuardrailCheck(env.guard),
                     requests |-> SolveRequests(pt, ctx, env),
                     out |-> Solve(pt, cat, ctx, env)]
    /\ UNCHANGED <<state, log, kb, calls, raised, op, verification, nops, nruns, trace,
                   sess>>

\* Solutions handed to the verifier
SolutionDatas ==
    [steps : {<<>>, <<"Parsed expression: ...", "Computed exact value: ...">>},
     final_answer : {NoneV, "", "5.0", "9e99", "-9e99", "1e100", "-1e100", "1e+101",
                     "inf", "-inf", "nan", "x + 1", "Error"},
     tool_used : {"calculator", NoneV}]

\* VerifierAgent.verify(problem_text, solution_data, strict)
CallVerify ==
    /\ probe.fn = "none"
    /\ \E sd \in SolutionDatas, strict \in BOOLEAN, resp \in VerifierResponses :
        probe' = [fn |-> "verify", solution_data |-> sd, strict |-> strict,
                  resp |-> resp, out |-> Verify(sd, strict, resp)]
    /\ UNCHANGED <<state, log, kb, calls, raised, op, verification, nops, nruns, trace,
                   sess>>

\* ParserAgent.run(text, image_path, audio_path)
CallParserRun ==
    /\ probe.fn = "none"
    /\ \E in \in ParserInputs :
        probe' = [fn |-> "run", in |-> in, out |-> ParserRun(in)]
    /\ UNCHANGED <<state, log, kb, calls, raised, op, verification, nops, nruns, trace,
                   sess>>

\* Calculator.solve_arithmetic(query)
CallSolveArithmetic ==
    /\ probe.fn = "none"
    /\ \E query \in {"10^101", "5 squared", "half of ten"}, reply \in CalcLlmReplies :
        probe' = [fn |-> "solve_arithmetic", query |-> query, reply |-> reply,
                  out |-> SolveArithmetic(query, reply)]
    /\ UNCHANGED <<state, log, kb, calls, raised, op, verification, nops, nruns, trace,
                   sess>>

AgentsNext ==
    \/ CallGuardrailCheck
    \/ CallSolve
    \/ CallVerify
    \/ CallParserRun
    \/ CallSolveArithmetic

Agents == Init /\ [][AgentsNext]_vars

(***************************************************************************)
(* The sessions specification: two sessions driven through one shared      *)
(* Orchestrator (ui/app.py keeps one Orchestrator and hands it the         *)
(* caller's PipelineState), interleaved at stage granularity.  A step is   *)
(* one stage of one session's running operation: a collaborator call and   *)
(* the assignments and the log write that follow it.  The log and the      *)
(* knowledge store are the shared resources.  The collaborators answer     *)
(* from the well-formed responses; nops counts the operations started on   *)
(* either session, nruns the solve phases entered.                         *)
(***************************************************************************)
SessionParserInputs ==
    { [text |-> NoneV, ocr |-> NoneV, asr |-> NoneV,
       resp |-> Response(FALSE, FALSE, "garbage", Parsed(Absent, Absent, Absent, Absent))],
      [text |-> "typed text", ocr |-> NoneV, asr |-> NoneV,
       resp |-> Response(FALSE, TRUE, "object",
                         Parsed("half of ten", "text", "false", "null"))] }

SessionSolveEnvs ==
    [reply : {"10/2"}, docs : {<<"long document">>}, plan : Plans,
     guard : {Response(FALSE, TRUE, "object", GuardObj("true", "null", Absent, "EXECUTE"))},
     exec : { <<STEPS, "1. isolate x", "2. divide", FINAL_ANSWER, " 42 ", CONFIDENCE, c>> :
                c \in {"0.92", "0.96"} }]

SessionVerifierResponses ==
    { Response(FALSE, TRUE, "object", Verdict("true", "critique text", Conf("num", n))) :
        n \in {60, 71} }

SessionFeedbacks ==
    { Feedback("half of ten", Absent, Absent), Feedback(Absent, "7", Absent),
      Feedback(Absent, Absent, "true"), NoFeedback }

\* what a stage leaves in its session's slot
Slot(st, pc, given) == [state |-> st, pc |-> pc, given |-> given]

\* start_pipeline, lines 27-47: the session's id and state, the parse stage
\* and the halt on an ambiguous parse
SessStartParse ==
    /\ nops < MaxOps
    /\ \E s \in Slots, given \in CallerIds \cup {NoneV}, in \in SessionParserInputs :
        /\ sess[s].pc = "new"
        /\ LET session_id == SessionIdFor(given, Uuid4(s))
               parsed == ParserRun(in)
               s0 == [PipelineState(session_id) EXCEPT !.parsed_data = parsed.result]
           IN  /\ log' = LogInteraction(log, session_id, "parser")
               /\ IF Truthy(parsed.result.is_ambiguous)
                  THEN /\ sess' = [sess EXCEPT ![s] =
                                     Slot(AmbiguousHalt(s0, parsed.result), "idle", given)]
                       /\ nruns' = nruns
                  ELSE /\ sess' = [sess EXCEPT ![s] = Slot(s0, "route", given)]
                       /\ nruns' = nruns + 1
    /\ nops' = nops + 1
    /\ UNCHANGED <<state, kb, calls, raised, op, verification, trace, probe>>

\* start_pipeline, lines 50-53: the route stage
SessRoute ==
    /\ \E s \in Slots, rreply \in PipelineRouterReplies :
        /\ sess[s].pc = "route"
        /\ sess' = [sess EXCEPT ![s].state.problem_category = Route(rreply),
                                ![s].state.step = "routed",
                                ![s].pc = "solve"]
        /\ log' = LogInteraction(log, sess[s].state.session_id, "router")
    /\ UNCHANGED <<state, kb, calls, raised, op, verification, nops, nruns, trace, probe>>

\* run_solver_phase, lines 60-73
SessSolve ==
    /\ \E s \in Slots, env \in SessionSolveEnvs :
        /\ sess[s].pc = "solve"
        /\ LET st == sess[s].state
               out == SolveStage(st, log,
                                 Solve(st.parsed_data.problem_text, st.problem_category,
                                       "", env))
           IN  /\ sess' = [sess EXCEPT ![s].state = out.state, ![s].pc = "verify"]
               /\ log' = out.log
    /\ UNCHANGED <<state, kb, calls, raised, op, verification, nops, nruns, trace, probe>>

\* run_solver_phase, lines 77-114
SessVerify ==
    /\ \E s \in Slots, vresp \in SessionVerifierResponses :
        /\ sess[s].pc = "verify"
        /\ LET out == VerifyStage(sess[s].state, log, vresp)
           IN  /\ sess' = [sess EXCEPT
                             ![s].state = out.state,
                             ![s].pc = IF out.state.needs_hitl THEN "idle" ELSE "explain"]
               /\ log' = out.log
    /\ UNCHANGED <<state, kb, calls, raised, op, verification, nops, nruns, trace, probe>>

\* run_solver_phase, lines 117-127
SessExplain ==
    /\ \E s \in Slots, ereply \in PipelineExplainerReplies :
        /\ sess[s].pc = "explain"
        /\ LET out == ExplainStage(sess[s].state, log, ereply)
           IN  /\ sess' = [sess EXCEPT ![s].state = out.state, ![s].pc = "idle"]
               /\ log' = out.log
    /\ UNCHANGED <<state, kb, calls, raised, op, verification, nops, nruns, trace, probe>>

\* resume_with_feedback on a session paused for review: its first stage
\* (the re-route of lines 159-167, or the explanation of lines 172-185 or
\* 194-204), or the return of line 211
SessResume ==
    /\ nops < MaxOps
    /\ \E s \in Slots, fb \in SessionFeedbacks :
        /\ sess[s].pc = "idle"
        /\ Halted(sess[s].state)
        /\ IF FeedbackBranch(fb) = "corrected_text"
           THEN /\ nruns < MaxRuns
                /\ nruns' = nruns + 1
                /\ \E rreply \in PipelineRouterReplies :
                     sess' = [sess EXCEPT
                                ![s].state.parsed_data.problem_text = fb.corrected_text,
                                ![s].state.parsed_data.is_ambiguous = "false",
                                ![s].state.needs_hitl = FALSE,
                                ![s].state.problem_category = Route(rreply),
                                ![s].pc = "solve"]
           ELSE IF FeedbackBranch(fb) = "override_answer"
           THEN /\ \E ereply \in PipelineExplainerReplies :
                     sess' = [sess EXCEPT
                                ![s].state = ApplyOverride(@, fb.override_answer, ereply),
                                ![s].pc = "learn"]
                /\ nruns' = nruns
           ELSE IF FeedbackBranch(fb) = "approve"
           THEN /\ \E ereply \in PipelineExplainerReplies :
                     sess' = [sess EXCEPT ![s].state = ApplyApprove(@, ereply),
                                          ![s].pc = "learn"]
                /\ nruns' = nruns
           ELSE UNCHANGED <<sess, nruns>>
    /\ nops' = nops + 1
    /\ UNCHANGED <<state, log, kb, calls, raised, op, verification, trace, probe>>

\* resume_with_feedback, lines 188 and 207: learn_from_success in the
\* override and approve branches
SessLearn ==
    /\ \E s \in Slots, store \in {"ok", "raise"} :
        /\ sess[s].pc = "learn"
        /\ kb' = LearnFromSuccess(sess[s].state, kb, store).kb
        /\ sess' = [sess EXCEPT ![s].pc = "idle"]
    /\ UNCHANGED <<state, log, calls, raised, op, verification, nops, nruns, trace, probe>>

\* handle_failure_feedback on a completed session
SessFailure ==
    /\ nops < MaxOps
    /\ \E s \in Slots, vresp \in SessionVerifierResponses :
        /\ sess[s].pc = "idle"
        /\ sess[s].state.step = "complete"
        /\ LET st == sess[s].state
               strict_result == Verify([steps |-> st.solution_steps,
                                        final_answer |-> st.final_answer,
                                        tool_used |-> st.tool_used], TRUE, vresp).result
           IN  sess' = [sess EXCEPT ![s].state = StrictUpdate(st, strict_result)]
    /\ nops' = nops + 1
    /\ UNCHANGED <<state, log, kb, calls, raised, op, verification, nruns, trace, probe>>

\* learn_from_success on a completed session
SessLearnCall ==
    /\ nops < MaxOps
    /\ \E s \in Slots, store \in {"ok", "raise"} :
        /\ sess[s].pc = "idle"
        /\ sess[s].state.step = "complete"
        /\ kb' = LearnFromSuccess(sess[s].state, kb, store).kb
    /\ nops' = nops + 1
    /\ UNCHANGED <<state, log, calls, raised, op, verification, nruns, trace, probe, sess>>

SessionsNext ==
    \/ SessStartParse
    \/ SessRoute
    \/ SessSolve
    \/ SessVerify
    \/ SessExplain
    \/ SessResume
    \/ SessLearn
    \/ SessFailure
    \/ SessLearnCall

Sessions == Init /\ [][SessionsNext]_vars

(***************************************************************************)
(* Properties.                                                             *)
(***************************************************************************)
Invoked(c) == \E i \in 1..Len(calls) : calls[i] = c

\* the last operation returned a state to its caller
Returned(name) == op.name = name /\ ~raised

\* the last operation ran run_solver_phase to its end: start_pipeline past
\* the ambiguity check, or a corrected-text resumption
RanSolverPhase ==
    /\ ~raised
    /\ \/ op.name = "start_pipeline" /\ state.step \in {"verified", "complete"}
       \/ op.name = "resume_with_feedback" /\ op.feedback.corrected_text # Absent

\* the last operation was a resumption that took the override branch
Overrode ==
    /\ Returned("resume_with_feedback")
    /\ op.feedback.corrected_text = Absent
    /\ op.feedback.override_answer # Absent

\* the last operation was a resumption that took the approve branch
Approved ==
    /\ Returned("resume_with_feedback")
    /\ op.feedback.corrected_text = Absent
    /\ op.feedback.override_answer = Absent
    /\ op.feedback.approve = "true"

AddIssued ==
    Invoked("vector_store.add_documents") \/ Invoked("vector_store.add_documents: raised")

LearnId == <<"learn", Prefix8(state.session_id)>>

\* C1: when the parser reports is_ambiguous, start_pipeline returns a state
\* halted at step parsed with needs_hitl set and an "Ambiguous Input" reason,
\* and it invoked neither the router, the solver, the verifier nor the
\* explainer.
C1_AmbiguousHalts ==
    (Returned("start_pipeline") /\ Truthy(state.parsed_data.is_ambiguous)) =>
        /\ state.step = "parsed"
        /\ state.needs_hitl
        /\ state.hitl_reason.prefix = "Ambiguous Input"
        /\ ~Invoked("router.route")
        /\ ~Invoked("solver.solve")
        /\ ~Invoked("verifier.verify")
        /\ ~Invoked("explainer.explain")

C1_Witness ==
    /\ Returned("start_pipeline")
    /\ state.parsed_data.is_ambiguous = "true"
    /\ state.parsed_data.ambiguity_reason = "unclear"
    /\ state.step = "parsed"
    /\ Invoked("parser.model")

\* C2: for a model-provenance solution whose verdict reports a numeric
\* adjusted_confidence, run_solver_phase clears needs_hitl exactly when
\* is_correct and (confidence > 0.9 and adjusted_confidence > 0.7, or
\* confidence > 0.95), with strict inequalities.
C2_ModelPolicy ==
    (/\ RanSolverPhase
     /\ state.tool_used # "calculator"
     /\ verification.d.adjusted_confidence.t = "num") =>
        (~state.needs_hitl <=>
            \/ /\ verification.d.is_correct = "true"
               /\ state.confidence > 90
               /\ verification.d.adjusted_confidence.n > 70
            \/ /\ verification.d.is_correct = "true"
               /\ state.confidence > 95)

\* the boundary scenario: 0.92, correct, 0.6 pauses for review
C2_Witness ==
    /\ RanSolverPhase
    /\ state.tool_used # "calculator"
    /\ verification.d.is_correct = "true"
    /\ state.confidence = 92
    /\ verification.d.adjusted_confidence = Conf("num", 60)
    /\ state.needs_hitl
    /\ state.step = "verified"

\* C3: for a calculator solution whose verdict reports a numeric
\* adjusted_confidence, run_solver_phase clears needs_hitl exactly when
\* adjusted_confidence > 0.5, whatever is_correct and the solver confidence
\* are; when the flag stays set the reason starts with "Calculator Sanity
\* Check Failed".
C3_ToolPolicy ==
    (/\ RanSolverPhase
     /\ state.tool_used = "calculator"
     /\ verification.d.adjusted_confidence.t = "num") =>
        /\ ~state.needs_hitl <=> verification.d.adjusted_confidence.n > 50
        /\ state.needs_hitl =>
              state.hitl_reason.prefix = "Calculator Sanity Check Failed"

\* cleared although the verdict says incorrect and the solver confidence is 0
C3_Witness ==
    /\ RanSolverPhase
    /\ state.tool_used = "calculator"
    /\ verification.d.is_correct = "false"
    /\ state.confidence = 0
    /\ verification.d.adjusted_confidence = Conf("num", 60)
    /\ ~state.needs_hitl

\* C4: when the calculator fails on an ARITHMETIC problem the run ends
\* paused for review at step verified, whatever the critique evaluator
\* answers.
C4_CalculatorFailureHalts ==
    (/\ RanSolverPhase
     /\ state.tool_used = "calculator"
     /\ state.solution_plan = "Tool computation failed") =>
        /\ state.needs_hitl
        /\ state.step = "verified"

\* C5: verify answers is_correct = false for every calculator solution
\* whose final answer is a number outside (-1e100, 1e100), whatever the
\* critique evaluator answers.
C5_OutOfRangeRejected ==
    (/\ probe.fn = "verify"
     /\ probe.solution_data.tool_used = "calculator"
     /\ probe.solution_data.final_answer \in
            {"1e100", "-1e100", "1e+101", "inf", "-inf"}) =>
        /\ probe.out.result.kind = "dict"
        /\ probe.out.result.d.is_correct = "false"

\* C6: check fails closed: an evaluator response that holds no verdict
\* object (undecodable text, JSON that is no object, an object without
\* is_safe) yields is_safe = false with recommended_action TRIGGER_HITL.
C6_GuardrailFailsClosed ==
    (/\ probe.fn = "check"
     /\ \/ probe.resp.body \in {"garbage", "array"}
        \/ probe.resp.obj.is_safe = Absent) =>
        /\ probe.out.kind = "dict"
        /\ probe.out.d.is_safe = "false"
        /\ probe.out.d.recommended_action = "TRIGGER_HITL"

\* C7: every verdict check returns with is_safe = false has a
\* recommended_action other than EXECUTE.
C7_UnsafeNeverExecute ==
    (/\ probe.fn = "check"
     /\ probe.out.kind = "dict"
     /\ probe.out.d.is_safe = "false") =>
        probe.out.d.recommended_action # "EXECUTE"

\* C8: solve on a non-ARITHMETIC problem whose guardrail verdict has
\* is_safe false or missing never invokes the executor and returns
\* confidence 0.0, no steps, final_answer "Guardrail Intercepted" and an
\* error annotation that names the verdict's violation.
C8_UnsafePlanNotExecuted ==
    (/\ probe.fn = "solve"
     /\ probe.problem_type # "ARITHMETIC"
     /\ probe.guard_result.kind = "dict"
     /\ probe.guard_result.d.is_safe \in {"false", Absent}) =>
        /\ ~probe.out.raised
        /\ \A i \in 1..Len(probe.out.calls) : probe.out.calls[i] # "executor"
        /\ probe.out.result.confidence = 0
        /\ probe.out.result.steps = <<>>
        /\ probe.out.result.final_answer = "Guardrail Intercepted"
        /\ probe.out.result.error.kind = "Guardrail Violation"
        /\ probe.out.result.error.violation_type =
              Get(probe.guard_result.d, "violation_type", NoneV)

C8_Witness ==
    /\ probe.fn = "solve"
    /\ probe.problem_type = "ALGEBRA"
    /\ probe.guard_result.kind = "dict"
    /\ probe.guard_result.d.is_safe = Absent
    /\ probe.guard_result.d.recommended_action = "EXECUTE"
    /\ probe.out.result.final_answer = "Guardrail Intercepted"
    /\ probe.out.calls = <<"vector_store.query", "planner", "guardrail">>

\* C9 as stated: an override resumption of a halted session returns step
\* complete, verification_passed, needs_hitl cleared, the override as
\* final_answer, and the knowledge store holds a learning record of the
\* session.
C9_OverrideCompletesAndLearns ==
    Overrode =>
        /\ state.step = "complete"
        /\ state.verification_passed = "true"
        /\ ~state.needs_hitl
        /\ state.final_answer = op.feedback.override_answer
        /\ \E d \in kb : d.id = LearnId /\ d.final_answer = state.final_answer

\* C9 as amended: the resumption completes as stated; learn_from_success
\* issues an add to the knowledge store exactly when problem_text and the
\* override are both non-empty, and the record is stored when that add
\* succeeds.
C9_OverrideCompletes ==
    Overrode =>
        /\ state.step = "complete"
        /\ state.verification_passed = "true"
        /\ ~state.needs_hitl
        /\ state.final_answer = op.feedback.override_answer
        /\ AddIssued <=> (Truthy(state.parsed_data.problem_text)
                          /\ Truthy(op.feedback.override_answer))
        /\ Invoked("vector_store.add_documents") => \E d \in kb : d.id = LearnId

C9_Witness ==
    /\ Overrode
    /\ op.from_step = "parsed"
    /\ state.parsed_data.problem_text = "combined raw input"
    /\ state.final_answer = "7"
    /\ \E d \in kb : d.id = LearnId /\ d.final_answer = "7"

\* a step of resume_with_feedback that takes the approve branch on a
\* session halted at verified
ApproveStep ==
    /\ nops' = nops + 1
    /\ state.step = "verified"
    /\ op'.name = "resume_with_feedback"
    /\ op'.feedback.corrected_text = Absent
    /\ op'.feedback.override_answer = Absent
    /\ op'.feedback.approve = "true"

\* what C10 says of the approval apart from the learning record
ApproveEffect ==
    /\ ~raised'
    /\ state'.step = "complete"
    /\ ~state'.needs_hitl
    /\ state'.verification_passed = "true"
    /\ state'.final_answer = state.final_answer
    /\ state'.solution_steps = state.solution_steps
    /\ state'.confidence = state.confidence
    /\ calls'[1] = "explainer.explain"
    /\ \A i \in 1..Len(calls') :
          calls'[i] \notin {"solver.solve", "verifier.verify", "parser.run",
                            "router.route"}

\* C10 as stated: approving a session halted at verified completes it,
\* leaves final_answer, solution_steps and confidence unchanged, invokes the
\* explainer and neither solver nor verifier, and the knowledge store holds
\* a learning record of the session afterwards.
C10_ApproveCompletesAndLearns ==
    [][ApproveStep =>
          /\ ApproveEffect
          /\ \E d \in kb' : /\ d.id = <<"learn", Prefix8(state.session_id)>>
                             /\ d.final_answer = state.final_answer]_vars

\* C10 as amended: the approval completes the session as stated;
\* learn_from_success issues an add to the knowledge store exactly when
\* problem_text and final_answer are both non-empty, and the record is
\* stored when that add succeeds.
C10_ApproveCompletes ==
    [][ApproveStep =>
          /\ ApproveEffect
          /\ (\E i \in 1..Len(calls') :
                 calls'[i] \in {"vector_store.add_documents",
                                "vector_store.add_documents: raised"})
             <=> (Truthy(state.parsed_data.problem_text)
                  /\ Truthy(state.final_answer))
          /\ (\E i \in 1..Len(calls') : calls'[i] = "vector_store.add_documents")
             => \E d \in kb' : d.id = <<"learn", Prefix8(state.session_id)>>]_vars

C10_Witness ==
    /\ Approved
    /\ op.from_step = "verified"
    /\ state.step = "complete"
    /\ state.confidence = 92
    /\ state.final_answer = "42"
    /\ verification.d.is_correct = "false"
    /\ \E d \in kb : d.id = LearnId /\ d.final_answer = "42"

\* the last operation was a resumption with corrected_text
Corrected ==
    /\ op.name = "resume_with_feedback"
    /\ op.feedback.corrected_text # Absent

\* the decision of orchestrator.py lines 96-108 on the values in the state
\* and the verdict, a missing adjusted_confidence read as 1.0
PolicyClears ==
    LET cv == IF verification.d.adjusted_confidence.t = "absent"
              THEN 100 ELSE verification.d.adjusted_confidence.n
    IN  IF state.tool_used = "calculator"
        THEN cv > 50
        ELSE \/ Truthy(state.verification_passed) /\ state.confidence > 90 /\ cv > 70
             \/ Truthy(state.verification_passed) /\ state.confidence > 95

\* position of the only occurrence of c in calls, 0 if there is not exactly one
CallAt(c) ==
    IF Cardinality({i \in 1..Len(calls) : calls[i] = c}) = 1
    THEN CHOOSE i \in 1..Len(calls) : calls[i] = c
    ELSE 0

\* C11: a corrected-text resumption never invokes the parser, sets
\* problem_text to the corrected text and is_ambiguous to false, runs route,
\* solve, verify in that order, and returns the needs_hitl that the decision
\* policy computes for the new attempt.
C11_CorrectedTextReruns ==
    Corrected =>
        /\ ~Invoked("parser.run") /\ ~Invoked("parser.model")
        /\ state.parsed_data.problem_text = op.feedback.corrected_text
        /\ state.parsed_data.is_ambiguous = "false"
        /\ calls[1] = "router.route"
        /\ calls[2] = "solver.solve"
        /\ ~raised =>
              /\ CallAt("router.route") = 1
              /\ CallAt("solver.solve") = 2
              /\ CallAt("verifier.verify") > 2
              /\ verification.kind = "dict"
              /\ state.verification_passed = verification.d.is_correct
              /\ state.needs_hitl <=> ~PolicyClears
              /\ state.step = IF state.needs_hitl THEN "verified" ELSE "complete"
              /\ Invoked("explainer.explain") =>
                    CallAt("explainer.explain") > CallAt("verifier.verify")

\* the resumption cleared the flag of a session halted at parsed and the
\* policy set it again
C11_Witness ==
    /\ Corrected
    /\ ~raised
    /\ op.from_step = "parsed"
    /\ state.parsed_data.problem_text = "half of ten"
    /\ state.problem_category = "ALGEBRA"
    /\ state.confidence = 92
    /\ verification.d.adjusted_confidence = Conf("num", 60)
    /\ state.needs_hitl
    /\ state.step = "verified"

\* a step of handle_failure_feedback
FailureFeedbackStep ==
    /\ nops' = nops + 1
    /\ op'.name = "handle_failure_feedback"

\* C12: handle_failure_feedback invokes the verifier exactly once, with
\* strict = true, and no other stage; of the state it may change only
\* critique, verification_passed and hitl_reason, and it writes neither the
\* session log nor the knowledge store.
C12_FailureFeedbackFrame ==
    [][FailureFeedbackStep =>
          /\ calls'[1] = "verifier.verify(strict)"
          /\ \A i \in 2..Len(calls') : calls'[i] = "verifier.model(strict)"
          /\ Len(calls') <= 2
          /\ [state' EXCEPT !.critique = state.critique,
                            !.verification_passed = state.verification_passed,
                            !.hitl_reason = state.hitl_reason] = state
          /\ log' = log
          /\ kb' = kb]_vars

\* a strict review that failed a completed model solution
C12_Witness ==
    /\ Returned("handle_failure_feedback")
    /\ calls = <<"verifier.verify(strict)", "verifier.model(strict)">>
    /\ state.critique = "Strict Review: critique text"
    /\ state.verification_passed = "false"
    /\ state.hitl_reason.prefix = "User Rejected + Strict Verify Failed"
    /\ state.step = "complete"
    /\ ~state.needs_hitl
    /\ state.confidence = 96

\* the stages in pipeline order
StepOrder == <<"init", "parsed", "routed", "solved", "verified", "complete">>

StepRank(s) == CHOOSE i \in 1..Len(StepOrder) : StepOrder[i] = s

IsStep(s) == \E i \in 1..Len(StepOrder) : StepOrder[i] = s

NonDecreasing(seq) ==
    \A i \in 1..(Len(seq) - 1) : StepRank(seq[i]) <= StepRank(seq[i + 1])

\* C13: step is always one of the six stages; within and across the
\* operations on a session it never moves to an earlier stage, except that
\* resume_with_feedback re-enters the pipeline, at the routing stage or
\* later, and moves forward from there.
C13_StepMonotone ==
    /\ [](IsStep(state.step) /\ \A i \in 1..Len(trace) : IsStep(trace[i]))
    /\ [][nops' = nops + 1 =>
            /\ IF op'.name = "resume_with_feedback"
               THEN /\ NonDecreasing(trace')
                    /\ trace' # <<>> =>
                          \/ StepRank(trace'[1]) >= StepRank(state.step)
                          \/ StepRank(trace'[1]) >= StepRank("routed")
                    /\ \/ StepRank(state'.step) >= StepRank(state.step)
                       \/ StepRank(state'.step) >= StepRank("routed")
               ELSE /\ NonDecreasing(<<state.step>> \o trace')
                    /\ StepRank(state'.step) >= StepRank(state.step)
            /\ (~raised' /\ trace' # <<>>) => state'.step = trace'[Len(trace')]
            /\ trace' = <<>> => state'.step = state.step]_vars

\* a corrected-text resumption of a session halted at verified re-enters
\* at solved
C13_Witness ==
    /\ Corrected
    /\ ~raised
    /\ op.from_step = "verified"
    /\ trace = <<"solved", "complete">>
    /\ state.step = "complete"

\* the calls that invoke a pipeline stage, and the log role of each
IsStageCall(c) ==
    c \in {"parser.run", "router.route", "solver.solve", "verifier.verify",
           "explainer.explain"}

StageRole(c) ==
    CASE c = "parser.run" -> "parser"
      [] c = "router.route" -> "router"
      [] c = "solver.solve" -> "solver"
      [] c = "verifier.verify" -> "verifier"
      [] c = "explainer.explain" -> "explainer"

StagesRun(cs) ==
    LET st == SelectSeq(cs, IsStageCall)
    IN  [i \in 1..Len(st) |-> StageRole(st[i])]

\* C14: in start_pipeline and in every resumption each stage that completes
\* appends one entry to the session log, in execution order, under the
\* session's id; when the operation faults, the entries of the stages
\* before the faulting one are in the log.
C14_EveryStageLogged ==
    [][(nops' = nops + 1 /\ op'.name \in {"start_pipeline", "resume_with_feedback"}) =>
          LET ran == StagesRun(calls')
              appended == [i \in 1..(Len(log') - Len(log)) |-> log'[Len(log) + i].role]
          IN  /\ Len(log') >= Len(log)
              /\ SubSeq(log', 1, Len(log)) = log
              /\ IF raised'
                 THEN appended \in {ran, SubSeq(ran, 1, Len(ran) - 1)}
                 ELSE appended = ran]_vars

\* C15: start_pipeline and resume_with_feedback return a state, whatever
\* the parser, guardrail, executor, verifier and explainer models answer;
\* they never end in an unhandled fault.
C15_NeverRaises ==
    op.name \in {"start_pipeline", "resume_with_feedback"} => ~raised

\* C16: solve delegates to the calculator exactly when problem_type is
\* 'ARITHMETIC'; on that path nothing else is invoked, tool_used is
\* 'calculator', and the confidence is 1.0 when the calculator succeeds and
\* 0.0 with an error annotation when it fails.
C16_ArithmeticDelegation ==
    probe.fn = "solve" =>
        /\ (\E i \in 1..Len(probe.out.calls) : probe.out.calls[i] = "calculator")
              <=> probe.problem_type = "ARITHMETIC"
        /\ probe.problem_type = "ARITHMETIC" =>
              /\ probe.out.calls = <<"calculator">>
              /\ ~probe.out.raised
              /\ probe.out.result.tool_used = "calculator"
              /\ IF SolveArithmetic(probe.problem_text, probe.env.reply).success
                 THEN /\ probe.out.result.confidence = 100
                      /\ probe.out.result.error = NoError
                 ELSE /\ probe.out.result.confidence = 0
                      /\ probe.out.result.error.kind = "Calculator error"
        /\ probe.problem_type # "ARITHMETIC" =>
              /\ probe.out.result.tool_used # "calculator"
              /\ \E i \in 1..Len(probe.out.calls) : probe.out.calls[i] = "planner"

C16_Witness ==
    /\ probe.fn = "solve"
    /\ probe.problem_type = "ARITHMETIC"
    /\ probe.problem_text = "half of ten"
    /\ probe.env.reply = "10/2"
    /\ probe.out.calls = <<"calculator">>
    /\ probe.out.result.final_answer = "5.0"
    /\ probe.out.result.confidence = 100

\* start_pipeline returned the result of a calculator run that succeeded
\* with a number inside (-1e100, 1e100)
ToolSucceededInRange ==
    /\ Returned("start_pipeline")
    /\ state.problem_category = "ARITHMETIC"
    /\ state.solution_plan = "Direct computation via SymPy"
    /\ FloatOf(state.final_answer).ok
    /\ FloatOf(state.final_answer).cls = "fin"
    /\ FloatOf(state.final_answer).exp < 100

\* C17: an unambiguous ARITHMETIC problem on which the calculator succeeds
\* with an in-range number completes at once: confidence 1.0, tool_used
\* 'calculator', verification_passed, needs_hitl cleared, and neither the
\* planner, the guardrail nor the verifier's evaluator is invoked.
C17_ToolPathCompletes ==
    ToolSucceededInRange =>
        /\ state.step = "complete"
        /\ state.confidence = 100
        /\ state.tool_used = "calculator"
        /\ state.verification_passed = "true"
        /\ ~state.needs_hitl
        /\ Invoked("calculator")
        /\ ~Invoked("planner")
        /\ ~Invoked("guardrail")
        /\ ~Invoked("executor")
        /\ ~Invoked("verifier.model")

C17_Witness ==
    /\ ToolSucceededInRange
    /\ state.parsed_data.problem_text = "half of ten"
    /\ state.final_answer = "5.0"
    /\ state.step = "complete"
    /\ calls = <<"parser.run", "parser.model", "router.route", "solver.solve",
                 "calculator", "verifier.verify", "explainer.explain">>

\* verify was called on a calculator solution that passes the sanity
\* check: an answer that is present and non-empty, inside (-1e100, 1e100)
\* when it parses as a number, and a non-empty step list
PassesSanityCheck ==
    /\ probe.fn = "verify"
    /\ probe.solution_data.tool_used = "calculator"
    /\ probe.solution_data.final_answer \notin {NoneV, ""}
    /\ probe.solution_data.steps # <<>>
    /\ FloatOf(probe.solution_data.final_answer).ok =>
          /\ FloatOf(probe.solution_data.final_answer).cls = "fin"
          /\ FloatOf(probe.solution_data.final_answer).exp < 100

\* C18: on a calculator solution that passes the sanity check verify
\* returns is_correct = true and adjusted_confidence = 1.0 without invoking
\* the critique evaluator, in strict mode and in normal mode.
C18_SanityPassAutoVerified ==
    PassesSanityCheck =>
        /\ probe.out.calls = <<>>
        /\ probe.out.result.kind = "dict"
        /\ probe.out.result.d.is_correct = "true"
        /\ probe.out.result.d.adjusted_confidence = Conf("num", 100)

\* a symbolic answer, accepted unchecked, in strict mode
C18_Witness ==
    /\ PassesSanityCheck
    /\ probe.strict
    /\ probe.solution_data.final_answer = "x + 1"
    /\ probe.resp.obj.is_correct = "false"
    /\ probe.out.result.d.is_correct = "true"

\* position of the only occurrence of marker m in an executor output, 0 if
\* it is missing or duplicated
MarkerAt(content, m) ==
    IF Cardinality({i \in 1..Len(content) : content[i] = m}) = 1
    THEN CHOOSE i \in 1..Len(content) : content[i] = m
    ELSE 0

\* the three markers occur once each, in order, and the confidence section
\* is a number
WellFormedOutput(content) ==
    /\ 0 < MarkerAt(content, STEPS)
    /\ MarkerAt(content, STEPS) < MarkerAt(content, FINAL_ANSWER)
    /\ MarkerAt(content, FINAL_ANSWER) < MarkerAt(content, CONFIDENCE)
    /\ ParseConfidence(SectionText(
           SubSeq(content, MarkerAt(content, CONFIDENCE) + 1, Len(content)))).ok

\* solve ran the executor
Executed ==
    /\ probe.fn = "solve"
    /\ \E i \in 1..Len(probe.out.calls) : probe.out.calls[i] = "executor"

\* C19: when the executor output is structurally malformed (a marker
\* missing, duplicated or out of order, or a confidence section that is no
\* number) solve returns the degraded error result: final_answer 'Error',
\* confidence 0.0, nothing taken from the output.
C19_MalformedOutputDegrades ==
    (Executed /\ ~WellFormedOutput(probe.env.exec)) =>
        /\ probe.out.result.final_answer = "Error"
        /\ probe.out.result.confidence = 0
        /\ probe.out.result.steps = <<"Error parsing solver output">>
        /\ probe.out.result.error.kind = "Solver Parse Error"

\* C20: every result that solve builds from the executor output, by the
\* delimiter parsing or by the parse fallback, has a non-empty final_answer
\* and a non-empty step list.
C20_ResultNeverEmpty ==
    (Executed /\ ~probe.out.raised) =>
        /\ probe.out.result.final_answer \notin {"", NoneV, Absent}
        /\ probe.out.result.steps # <<>>


\* the text of state.hitl_reason is a non-empty string: every reason the
\* orchestrator writes is a fixed prefix followed by the details
HasReason(st) == st.hitl_reason.prefix \notin {NoneV, Absent, ""}

\* C21: in every state returned by start_pipeline, resume_with_feedback or
\* handle_failure_feedback, needs_hitl implies that hitl_reason is a
\* non-empty string.
C21_HaltedHasReason ==
    (/\ op.name \in {"start_pipeline", "resume_with_feedback",
                     "handle_failure_feedback"}
     /\ ~raised
     /\ state.needs_hitl) => HasReason(state)

\* a first attempt that the policy halted
C21_Witness ==
    /\ Returned("start_pipeline")
    /\ state.needs_hitl
    /\ state.step = "verified"
    /\ state.tool_used # "calculator"
    /\ state.hitl_reason.prefix = "Verification Failed"
    /\ state.hitl_reason.text = "critique text"


\* the session of slot s has been created by start_pipeline
Started(s) == sess[s].pc # "new"

\* C22: session_id is assigned once, by start_pipeline: it is the caller's
\* id when one was given and a fresh uuid otherwise; no later stage of
\* start_pipeline and no stage of resume_with_feedback,
\* handle_failure_feedback or learn_from_success changes it, however often
\* the session pauses and resumes.
C22_SessionIdStable ==
    /\ [](\A s \in Slots :
            Started(s) =>
                sess[s].state.session_id =
                    IF sess[s].given # NoneV THEN sess[s].given ELSE Uuid4(s))
    /\ [][\A s \in Slots :
            Started(s) =>
                /\ sess'[s].state.session_id = sess[s].state.session_id
                /\ sess'[s].given = sess[s].given]_vars

\* a session under the caller's id that halted at parsed, was resumed with
\* a corrected text, halted at verified and was approved
C22_Witness ==
    /\ sess["A"].given = "caller-1"
    /\ sess["A"].state.session_id = "caller-1"
    /\ sess["A"].pc = "idle"
    /\ sess["A"].state.step = "complete"
    /\ sess["A"].state.parsed_data.ambiguity_reason = "No valid input provided"
    /\ sess["A"].state.parsed_data.problem_text = "half of ten"
    /\ sess["A"].state.hitl_reason.prefix = "Verification Failed"
    /\ sess["A"].state.verification_passed = "true"


\* the sessions whose slot a step changes
Actors == {s \in Slots : sess'[s] # sess[s]}

\* C23: with two sessions interleaved at stage granularity on one
\* Orchestrator, every stage changes the PipelineState of one session only,
\* the one it runs for, and every log entry it writes is appended under the
\* session_id of that session.
C23_SessionsIndependent ==
    [][/\ Cardinality(Actors) <= 1
       /\ log' # log =>
             /\ Len(log') = Len(log) + 1
             /\ SubSeq(log', 1, Len(log)) = log
             /\ \E s \in Actors :
                   log'[Len(log')].session_id = sess'[s].state.session_id]_vars

\* the stages of two running start_pipeline calls alternate
C23_Witness ==
    /\ Len(log) = 4
    /\ log[1] = [session_id |-> "aaaaaaaa-1", role |-> "parser"]
    /\ log[2] = [session_id |-> "aaaaaaaa-2", role |-> "parser"]
    /\ log[3] = [session_id |-> "aaaaaaaa-1", role |-> "router"]
    /\ log[4] = [session_id |-> "aaaaaaaa-2", role |-> "router"]
    /\ sess["A"].pc = "solve"
    /\ sess["B"].pc = "solve"
    /\ sess["A"].state.problem_category = "ARITHMETIC"
    /\ sess["B"].state.problem_category = "ALGEBRA"


\* C24: the confidence of every solve result (which run_solver_phase
\* copies into PipelineState) lies in [0.0, 1.0], for every executor
\* output, including one whose confidence section is a number outside that
\* range.
C24_ConfidenceInUnitInterval ==
    (probe.fn = "solve" /\ ~probe.out.raised) =>
        /\ probe.out.result.confidence >= 0
        /\ probe.out.result.confidence <= 100


\* solve obtained a verdict that passes the plan with a soft-rule finding
SoftRuleOnly ==
    /\ probe.fn = "solve"
    /\ probe.problem_type # "ARITHMETIC"
    /\ probe.guard_result.kind = "dict"
    /\ probe.guard_result.d.is_safe = "true"
    /\ probe.guard_result.d.recommended_action = "SWITCH_STRATEGY"

\* C25: when the guardrail verdict is is_safe = true with
\* recommended_action SWITCH_STRATEGY the plan is still executed, and the
\* finding is surfaced: the result that solve returns (all that
\* run_solver_phase has to fill the PipelineState from) carries the
\* recommended action or the verdict's violation or reason.
C25_SoftRuleSurfaced ==
    SoftRuleOnly =>
        /\ \E i \in 1..Len(probe.out.calls) : probe.out.calls[i] = "executor"
        /\ \/ probe.out.result.error.rec = "SWITCH_STRATEGY"
           \/ /\ probe.guard_result.d.violation_type # Absent
              /\ probe.out.result.error.violation_type =
                     probe.guard_result.d.violation_type
           \/ /\ probe.guard_result.d.reason # Absent
              /\ probe.out.result.error.reason = probe.guard_result.d.reason


\* OCR / ASR outputs that are an error token or corrupted: empty, shorter
\* than three characters, holding an artifact marker, or mostly symbols
Unusable(t) ==
    t \in {"ERROR_OCR_FAILED", "ERROR_ASR_FAILED", "", "ab", "2x -- 3", "((+))="}

BadMedia(in) ==
    \/ in.ocr # NoneV /\ Unusable(in.ocr)
    \/ in.asr # NoneV /\ Unusable(in.asr)

NoInput(in) == in.ocr = NoneV /\ in.asr = NoneV /\ in.text \in {NoneV, ""}

\* the model response holds no JSON object with the four required keys
Undecodable(resp) ==
    \/ resp.body # "object"
    \/ \E k \in {"problem_text", "input_type", "is_ambiguous", "ambiguity_reason"} :
          resp.obj[k] = Absent

\* C26: run returns is_ambiguous = true with a non-empty ambiguity_reason
\* whenever no input is supplied, the OCR or ASR output is an error token
\* or looks corrupted (even if valid text was also supplied), or the model
\* response cannot be decoded into an object holding the four required
\* keys; in the first two cases the parser model is not invoked.
C26_UnusableInputAmbiguous ==
    probe.fn = "run" =>
        /\ (NoInput(probe.in) \/ BadMedia(probe.in) \/ Undecodable(probe.in.resp)) =>
              /\ probe.out.result.is_ambiguous = "true"
              /\ Truthy(probe.out.result.ambiguity_reason)
        /\ (NoInput(probe.in) \/ BadMedia(probe.in)) => probe.out.calls = <<>>

\* a failed OCR next to a valid typed text, with a model that would have
\* answered a clean parse
C26_Witness ==
    /\ probe.fn = "run"
    /\ probe.in.text = "typed text"
    /\ probe.in.ocr = "ERROR_OCR_FAILED"
    /\ probe.in.asr = NoneV
    /\ probe.in.resp = Response(FALSE, FALSE, "object",
                                Parsed("half of ten", "text", "false", "null"))
    /\ probe.out.result.is_ambiguous = "true"
    /\ probe.out.result.input_type = "image"
    /\ probe.out.calls = <<>>


\* the queries that a fixed rewrite pattern matches: '<n> ^ <m>' and
\* '<n> squared'
PatternMatches(query) == query \in {"10^101", "5 squared"}

\* the translator's replies that SymPy cannot evaluate
Unevaluable(reply) == reply = "(("

\* C27: solve_arithmetic invokes the model translator only when none of
\* the fixed rewrite patterns matches the query; it returns success = false
\* with an error string when the translation is flagged ERROR_NOT_MATH,
\* the translator raises, or symbolic evaluation fails, and otherwise
\* success = true with a symbolic value and the parsed expression, a
\* missing numerical value being tolerated.
C27_CalculatorFallback ==
    probe.fn = "solve_arithmetic" =>
        /\ probe.out.asked => ~PatternMatches(probe.query)
        /\ IF /\ ~PatternMatches(probe.query)
              /\ \/ probe.reply \in {"ERROR_NOT_MATH", "raise"}
                 \/ Unevaluable(probe.reply)
           THEN /\ ~probe.out.success
                /\ probe.out.error \notin {Absent, NoneV, ""}
           ELSE /\ probe.out.success
                /\ probe.out.symbolic \notin {Absent, NoneV, ""}
                /\ probe.out.parsed_expression \notin {Absent, NoneV, ""}
                /\ probe.out.numerical # Absent

\* a translation that evaluates to a symbolic value without a number
C27_Witness ==
    /\ probe.fn = "solve_arithmetic"
    /\ probe.query = "half of ten"
    /\ probe.reply = "x+1"
    /\ probe.out.asked
    /\ probe.out.success
    /\ probe.out.symbolic = "x + 1"
    /\ probe.out.numerical = NoneV
    /\ probe.out.parsed_expression = "x+1"


StrictInvoked == Invoked("verifier.verify(strict)") \/ Invoked("verifier.model(strict)")

PlainInvoked == Invoked("verifier.verify") \/ Invoked("verifier.model")

\* C28: the verifier is invoked with strict = true by
\* handle_failure_feedback only: every verification of start_pipeline and
\* resume_with_feedback is a plain one, learn_from_success verifies
\* nothing, and the strict review leaves needs_hitl as it found it.
C28_StrictOnlyOnFailureFeedback ==
    /\ op.name \in {"start_pipeline", "resume_with_feedback", "learn_from_success"} =>
          ~StrictInvoked
    /\ op.name = "learn_from_success" => ~PlainInvoked
    /\ op.name = "handle_failure_feedback" =>
          /\ Invoked("verifier.verify(strict)")
          /\ ~PlainInvoked
          /\ state.needs_hitl = op.from_needs_hitl

\* a session that was approved by the user, then rejected: the strict
\* review fails the answer and the flag stays cleared
C28_Witness ==
    /\ Returned("handle_failure_feedback")
    /\ Invoked("verifier.model(strict)")
    /\ state.confidence = 92
    /\ state.hitl_reason.prefix = "User Rejected + Strict Verify Failed"
    /\ state.verification_passed = "false"
    /\ ~state.needs_hitl
    /\ nruns = 1
    /\ nops = 3


\* the last operation ran the solve phase, the guardrail blocked the plan
\* and solve returned the intercepted result to run_solver_phase
GuardrailBlocked ==
    /\ op.name = "start_pipeline" \/ Corrected
    /\ Invoked("guardrail")
    /\ ~Invoked("executor")
    /\ Invoked("verifier.verify")

\* C29: when the guardrail blocks a plan the run that contains it ends
\* halted: start_pipeline or the corrected-text resumption returns step
\* verified with needs_hitl set, for every verdict that the verifier
\* returns on the intercepted result.
C29_BlockedPlanHalts ==
    GuardrailBlocked =>
        /\ ~raised
        /\ state.step = "verified"
        /\ state.needs_hitl


\* solve took the model path
ModelPath == probe.fn = "solve" /\ probe.problem_type # "ARITHMETIC"

\* the calls of the model path up to the guardrail
Preamble ==
    (IF probe.context_str = "" THEN <<"vector_store.query">> ELSE <<>>)
    \o <<"planner", "guardrail">>

\* C30: on a non-ARITHMETIC problem solve calls its collaborators in the
\* order retrieve, plan, guardrail, execute.  Retrieval is skipped when a
\* context is supplied; otherwise it asks the store for at most one
\* document and keeps at most its first 1500 characters.  The planner
\* prompt does not contain the retrieved context.  The executor is invoked
\* only after the guardrail has returned a safe verdict.
C30_SolveCallOrder ==
    ModelPath =>
        /\ probe.out.calls \in {Preamble, Preamble \o <<"executor">>}
        /\ Len(probe.requests.queries) = IF probe.context_str = "" THEN 1 ELSE 0
        /\ \A i \in 1..Len(probe.requests.queries) :
              probe.requests.queries[i].n_results <= 1
        /\ probe.out.result.context # "long document"
        /\ (probe.context_str = "" /\ probe.out.result.context # Absent) =>
              probe.out.result.context =
                  CASE probe.env.docs = <<"long document">> -> "long document[:1500]"
                    [] probe.env.docs = <<"short document">> -> "short document"
                    [] OTHER -> ""
        /\ (probe.context_str = "" /\ probe.env.docs # <<>>) =>
              /\ ~Contains(probe.requests.planner, probe.env.docs[1])
              /\ ~Contains(probe.requests.planner, "long document[:1500]")
        /\ (\E i \in 1..Len(probe.out.calls) : probe.out.calls[i] = "executor") =>
              /\ probe.guard_result.kind = "dict"
              /\ probe.guard_result.d.is_safe = "true"

\* a retrieved long document reaches the executor, cut, after a safe verdict
C30_Witness ==
    /\ ModelPath
    /\ probe.context_str = ""
    /\ probe.env.docs = <<"long document">>
    /\ probe.out.calls = <<"vector_store.query", "planner", "guardrail", "executor">>
    /\ probe.out.result.context = "long document[:1500]"
    /\ Contains(probe.requests.executor, "long document[:1500]")
    /\ probe.out.result.final_answer = "42"


\* run asked the model and the response decoded to an object with the four
\* required keys
ParsedByModel ==
    /\ probe.fn = "run"
    /\ probe.out.calls = <<"parser.model">>
    /\ ~Undecodable(probe.in.resp)

\* C31: in every record that run returns, on the success path and on every
\* early-return and error path, is_ambiguous is true if and only if
\* ambiguity_reason is non-empty: a reason in the model's object forces
\* is_ambiguous to true, an ambiguous object without a reason gets the
\* default reason, and a non-ambiguous record has the reason None.
C31_AmbiguityContract ==
    probe.fn = "run" =>
        /\ probe.out.result.is_ambiguous = "true"
              <=> Truthy(probe.out.result.ambiguity_reason)
        /\ probe.out.result.is_ambiguous # "true" =>
              probe.out.result.ambiguity_reason = NoneV
        /\ ParsedByModel =>
              /\ Truthy(probe.in.resp.obj.ambiguity_reason) =>
                    /\ probe.out.result.is_ambiguous = "true"
                    /\ probe.out.result.ambiguity_reason =
                           probe.in.resp.obj.ambiguity_reason
              /\ (/\ ~Truthy(probe.in.resp.obj.ambiguity_reason)
                  /\ probe.in.resp.obj.is_ambiguous = "true") =>
                    probe.out.result.ambiguity_reason =
                        "Ambiguous input detected (unspecified by parser)"

\* the model gives a reason but says the input is not ambiguous
C31_Witness ==
    /\ ParsedByModel
    /\ probe.in.resp.obj.is_ambiguous = "false"
    /\ probe.in.resp.obj.ambiguity_reason = "unclear"
    /\ probe.out.result.is_ambiguous = "true"
    /\ probe.out.result.ambiguity_reason = "unclear"
    /\ probe.out.result.problem_text = "half of ten"


\* C32: needs_hitl is set at the start of every decision and is cleared only
\* on the confidence values the verifier reported: when the verdict carries
\* no adjusted_confidence the flag is cleared only by the branch that reads
\* no verifier confidence (a correct verdict with solver confidence above
\* 0.95 on a model solution), never on the strength of a substituted value.
C32_NoClearOnDefault ==
    (/\ RanSolverPhase
     /\ verification.kind = "dict"
     /\ verification.d.adjusted_confidence.t = "absent"
     /\ ~state.needs_hitl) =>
        /\ state.tool_used # "calculator"
        /\ Truthy(state.verification_passed)
        /\ state.confidence > SolverOverride


\* the last operation returned a state from one of the three methods that
\* return one
ReturnedState ==
    \/ Returned("start_pipeline")
    \/ Returned("resume_with_feedback")
    \/ Returned("handle_failure_feedback")

\* step is a step at which a method returns, and the flag agrees with it
StepMatchesFlag(st) ==
    /\ st.step \in {"parsed", "verified", "complete"}
    /\ st.needs_hitl <=> st.step \in {"parsed", "verified"}

\* C33: in every state returned by start_pipeline, resume_with_feedback or
\* handle_failure_feedback, after any sequence of these operations, step is
\* one of parsed, verified, complete, and needs_hitl is true exactly when
\* step is parsed or verified; no state is returned at init, routed or
\* solved.  The same holds of what the approve branch, the override branch
\* and the strict review make of any returned state, whether or not the UI
\* offers them there.
C33_ReturnedStepAndFlag ==
    ReturnedState =>
        /\ StepMatchesFlag(state)
        /\ \A ereply \in PipelineExplainerReplies :
              /\ StepMatchesFlag(ApplyApprove(state, ereply))
              /\ \A answer \in {"", "7"} :
                    StepMatchesFlag(ApplyOverride(state, answer, ereply))
        /\ \A c \in {"true", "false", Absent} :
              StepMatchesFlag(StrictUpdate(state,
                  [kind |-> "dict", d |-> Verdict(c, "critique text", NoConf)]))

\* an override on a session halted at parsed
C33_Witness ==
    /\ Overrode
    /\ op.from_step = "parsed"
    /\ op.from_needs_hitl
    /\ state.step = "complete"
    /\ ~state.needs_hitl


\* C34: whenever start_pipeline or resume_with_feedback returns a state
\* with step = complete, verification_passed is true in that state, for
\* tool-provenance and model-provenance solutions alike.
C34_CompleteIsVerified ==
    (/\ Returned("start_pipeline") \/ Returned("resume_with_feedback")
     /\ state.step = "complete") =>
        state.verification_passed = "true"


\* C35: every state with step = complete that start_pipeline or
\* resume_with_feedback returns, after any sequence of these calls
\* (approve or override on a session halted at parsed included), has a
\* non-empty final_answer, a verification verdict and an explanation record.
C35_CompleteIsAnswered ==
    (/\ Returned("start_pipeline") \/ Returned("resume_with_feedback")
     /\ state.step = "complete") =>
        /\ Truthy(state.final_answer)
        /\ \E i \in 1..Len(log) : log[i].role = "verifier"
        /\ state.explanation # NoExplanation


\* the last operation was a resumption, returned or not
Resumed == op.name = "resume_with_feedback"

\* C36: resume_with_feedback applies exactly one feedback branch, with the
\* precedence corrected_text, override_answer, approve.  A feedback with
\* both override_answer and approve has the override applied: final_answer
\* is the override and the explainer is invoked once.  A feedback with
\* corrected_text re-runs the solve on the corrected text, and an
\* override_answer or approve in the same feedback is ignored: the outcome
\* is the policy's, nothing is learned, and the answer and
\* verification_passed are those of the new run.
C36_BranchPrecedence ==
    /\ (/\ Resumed
        /\ op.feedback.corrected_text = Absent
        /\ op.feedback.override_answer # Absent) =>
            /\ ~raised
            /\ state.final_answer = op.feedback.override_answer
            /\ state.step = "complete"
            /\ calls[1] = "explainer.explain"
            /\ \A i \in 2..Len(calls) : calls[i] # "explainer.explain"
            /\ trace = <<"verified", "complete">>
    /\ (Resumed /\ op.feedback.corrected_text # Absent) =>
            /\ calls[1] = "router.route"
            /\ calls[2] = "solver.solve"
            /\ state.parsed_data.problem_text = op.feedback.corrected_text
            /\ ~AddIssued
            /\ (~raised /\ verification.kind = "dict") =>
                  /\ state.needs_hitl <=> ~PolicyClears
                  /\ state.verification_passed = verification.d.is_correct
                  /\ op.feedback.override_answer = "7" => state.final_answer # "7"
    /\ (/\ Resumed
        /\ op.feedback.corrected_text = Absent
        /\ op.feedback.override_answer = Absent
        /\ op.feedback.approve = "true") =>
            /\ ~raised
            /\ calls[1] = "explainer.explain"
            /\ trace = <<"complete">>

\* override_answer and approve together: the override is applied
C36_Witness ==
    /\ Resumed
    /\ op.feedback = Feedback(Absent, "7", "true")
    /\ op.from_step = "verified"
    /\ state.final_answer = "7"
    /\ state.step = "complete"


\* a resumption whose feedback holds neither corrected_text nor
\* override_answer nor a true approve
NoOpResumeStep ==
    /\ nops' = nops + 1
    /\ op'.name = "resume_with_feedback"
    /\ op'.feedback.corrected_text = Absent
    /\ op'.feedback.override_answer = Absent
    /\ op'.feedback.approve \in {Absent, "false"}

\* C37: resume_with_feedback with a feedback that holds none of
\* corrected_text, override_answer and a true approve (an empty feedback, or
\* approve = false) returns the state with every field unchanged and
\* invokes no stage, appends nothing to the log and writes nothing to the
\* knowledge store, so a halted session stays halted.
C37_NoOpFeedbackFrame ==
    [][NoOpResumeStep =>
          /\ ~raised'
          /\ state' = state
          /\ calls' = <<>>
          /\ trace' = <<>>
          /\ log' = log
          /\ kb' = kb
          /\ Halted(state')]_vars

\* approve = false on a session halted at verified
C37_Witness ==
    /\ Returned("resume_with_feedback")
    /\ op.feedback = Feedback(Absent, Absent, "false")
    /\ op.from_step = "verified"
    /\ op.from_needs_hitl
    /\ state.step = "verified"
    /\ state.needs_hitl
    /\ calls = <<>>


\* a direct call of learn_from_success
LearnStep ==
    /\ nops' = nops + 1
    /\ op'.name = "learn_from_success"

\* C38: learn_from_success changes no field of the PipelineState and never
\* raises.  It writes nothing when problem_text or final_answer is empty;
\* otherwise it makes exactly one add to the knowledge store, and when that
\* add fails the failure is swallowed and the store is as it was.
C38_LearnFrame ==
    [][LearnStep =>
          /\ state' = state
          /\ ~raised'
          /\ log' = log
          /\ IF ~Truthy(state.parsed_data.problem_text) \/ ~Truthy(state.final_answer)
             THEN /\ calls' = <<>>
                  /\ kb' = kb
             ELSE /\ Len(calls') = 1
                  /\ calls'[1] \in {"vector_store.add_documents",
                                    "vector_store.add_documents: raised"}
                  /\ calls'[1] = "vector_store.add_documents: raised" => kb' = kb
                  /\ calls'[1] = "vector_store.add_documents" =>
                        /\ kb \subseteq kb'
                        /\ \E d \in kb' : d.id = <<"learn", Prefix8(state.session_id)>>
                        /\ Cardinality(kb') <= Cardinality(kb) + 1]_vars

\* the add failed and nothing is stored, the session is as it was
C38_Witness ==
    /\ op.name = "learn_from_success"
    /\ ~raised
    /\ calls = <<"vector_store.add_documents: raised">>
    /\ kb = {}
    /\ state.step = "complete"
    /\ Truthy(state.final_answer)


\* the id under which learn_from_success writes for the session in slot s
LearnIdOf(s) == <<"learn", Prefix8(sess[s].state.session_id)>>

\* C39: learning records of distinct sessions never share a knowledge-store
\* id, and a stored record is never overwritten: any two sessions with
\* different session_id values write under different ids, and a record in
\* the store stays as it is through every later learn_from_success.
C39_LearnIdsDistinct ==
    /\ [](\A s, t \in Slots :
            (/\ Started(s)
             /\ Started(t)
             /\ sess[s].state.session_id # sess[t].state.session_id) =>
                LearnIdOf(s) # LearnIdOf(t))
    /\ [][kb \subseteq kb']_vars

====
